---- MODULE Spec2Model ----
(***************************************************************************)
(* PDF compressor: the worker pipeline that prunes a loaded document graph *)
(* and saves it, in its three worker scripts, and the service that drives  *)
(* one worker per request and settles the caller's promise.                *)
(***************************************************************************)
EXTENDS Integers, Sequences, FiniteSets, TLC

(* ---------------------------------------------------------------------- *)
(* Bounds of the model                                                      *)
(* ---------------------------------------------------------------------- *)

\* Largest number of pages of a submitted document.
MaxPages == 2

\* Largest number of pages of a document in the runs that check liveness.
MaxLivePages == 1

\* Largest number of calls of cancel() on one cancelable compression.
MaxCancels == 2

\* Largest number of object URLs the page creates.
MaxUrls == 3

\* Largest number of compressions the App starts.
MaxCompressions == 2

\* Largest number of ticks of the progress timer of one simulated compression.
MaxTicks == 1

(* ---------------------------------------------------------------------- *)
(* Values of the object graph (pdf-lib PDFObject)                           *)
(* ---------------------------------------------------------------------- *)

\* A PDFRef to indirect object number n.
Ref(n) == [t |-> "ref", n |-> n]

\* A PDFName.
Name(s) == [t |-> "name", s |-> s]

\* A PDFNumber.
Num(n) == [t |-> "num", v |-> n]

\* Any other literal value (string, boolean, ...).
Lit == [t |-> "lit"]

\* A PDFArray.
Arr(items) == [t |-> "array", items |-> items]

\* A PDFDict (or a subclass of it) holding the entries d.
Dict(cls, d) == [t |-> "dict", cls |-> cls, d |-> d]

\* A PDFStream: it owns a dictionary but has no has/get/delete of its own.
Stream(d) == [t |-> "stream", d |-> d]

\* JavaScript undefined: the result of looking up an object that is not there.
Undefined == [t |-> "undefined"]

\* An object store with no objects: the state before a document is loaded.
EmptyContext == [i \in {} |-> Undefined]

\* trailerInfo before a document is loaded.
EmptyTrailer == [Root |-> Undefined, Info |-> Undefined]

\* PDFContext.lookup(ref): the indirect object of a PDFRef, undefined when
\* there is none; any other value is returned as it is.
lookup(ctx, v) ==
  IF v.t = "ref"
    THEN IF v.n \in DOMAIN ctx THEN ctx[v.n] ELSE Undefined
    ELSE v

\* `x instanceof PDFRef`.
IsRef(v) == v.t = "ref"

\* The value has the PDFDict methods has/get/delete; calling one of them on
\* anything else raises a TypeError.
IsDict(o) == o.t = "dict"

\* PDFDict.has(key).
has(o, key) == key \in DOMAIN o.d

\* PDFDict.get(key), for a key that is present.
get(o, key) == o.d[key]

\* PDFDict.delete(key): removing an absent key changes nothing.
delete(o, key) == [o EXCEPT !.d = [k \in DOMAIN o.d \ {key} |-> o.d[k]]]

\* `if (dict.has(key)) dict.delete(key)` for every key of a list, in turn.
deleteEach(o, keys) == [o EXCEPT !.d = [k \in DOMAIN o.d \ keys |-> o.d[k]]]

(* ---------------------------------------------------------------------- *)
(* Request inputs                                                           *)
(* ---------------------------------------------------------------------- *)

\* The worker scripts of the repository: the enhanced worker
\* (src/unnamed/part_000), the module worker the service loads
\* (src/src/workers/pdfCompression.worker.js) and the inline script of
\* createPdfCompressionWorker (src/src/createWorker.js), which loads and
\* saves the document and runs none of the four stages.
Variants == {"enhanced", "module", "inline"}

\* CompressionLevel.
Levels == {"low", "medium", "high"}

\* Sampled values of options.quality (0..100).
Qualities == {25}

\* PDFCompressionOptions.
OptionsSet ==
  [quality : Qualities, compressionLevel : Levels, preserveQuality : BOOLEAN]

(* ---------------------------------------------------------------------- *)
(* Documents a file can parse to                                            *)
(* ---------------------------------------------------------------------- *)

\* Object numbers used by the sample documents.
CatalogId == 1
InfoId == 2
PagesId == 3
PageId(p) == 10 + p
ResourcesId(p) == 20 + p
XObjectId(p) == 30 + p
ImageId(p) == 40 + p

\* Catalog entries removed by removeMetadata of the enhanced worker
\* (Metadata, MarkInfo, Outlines and the unnecessaryEntries list).
unnecessaryEntries ==
  {"PageLabels", "Names", "Dests", "ViewerPreferences",
   "PageLayout", "PageMode", "Threads", "OpenAction"}

\* Page entries removed by optimizeContentStreams at level high.
pageEntriesToRemove ==
  {"Dur", "Trans", "AA", "StructParents", "PZ", "SeparationInfo",
   "Group", "Tabs", "TemplateInstantiated", "PresSteps", "UserUnit"}

\* Keys of a catalog that carries every optional entry the stages look at,
\* and two they do not (Lang, AcroForm).
FullCatalogKeys ==
  {"Type", "Pages", "Metadata", "MarkInfo", "Outlines", "StructTreeRoot",
   "OCProperties", "Lang", "AcroForm"} \cup unnecessaryEntries

\* Keys of a page that carries every optional entry the stages look at, and
\* three they do not (Contents, MediaBox, Rotate).
RichPageKeys ==
  {"Type", "Parent", "Contents", "MediaBox", "Rotate", "Thumb", "Annots"}
    \cup pageEntriesToRemove

\* The value stored under a catalog key of a sample document.
CatalogValue(k) ==
  CASE k = "Type" -> Name("Catalog")
    [] k = "Pages" -> Ref(PagesId)
    [] k = "Names" ->
         Dict("PDFDict", [n \in {"EmbeddedFiles", "JavaScript"} |-> Lit])
    [] OTHER -> Lit

\* The value stored under a page key of a sample document.
PageValue(k) ==
  CASE k = "Type" -> Name("Page")
    [] k = "Parent" -> Ref(PagesId)
    [] k = "UserUnit" -> Num(2)
    [] OTHER -> Lit

\* The catalog of a sample document: bare, or with every optional entry.
SampleCatalog(meta) ==
  LET keys == IF meta = "full" THEN FullCatalogKeys ELSE {"Type", "Pages"}
  IN  Dict("PDFCatalog", [k \in keys |-> CatalogValue(k)])

\* Shapes of a sample page: what its Resources entry is.
PageShapes == {"plain", "rich", "dangling", "wrongtype", "inline"}

\* A resource dictionary with an XObject entry x.
SampleResources(x) ==
  Dict("PDFDict", [k \in {"ProcSet", "Font", "XObject"} |->
                      IF k = "XObject" THEN x ELSE Lit])

\* An image XObject: a stream whose dictionary declares an image.
SampleImage ==
  Stream([k \in {"Subtype", "Width", "Height", "Filter"} |->
            CASE k = "Subtype" -> Name("Image")
              [] k = "Width" -> Num(2000)
              [] k = "Height" -> Num(1500)
              [] OTHER -> Name("JPXDecode")])

\* The page dictionary of sample page p.
SamplePage(p, shape) ==
  LET keys == IF shape = "plain" THEN {"Type", "Parent", "Contents", "Resources"}
              ELSE RichPageKeys \cup {"Resources"}
      res == IF shape = "inline"
               THEN SampleResources(Dict("PDFDict", [n \in {"Im1"} |-> Ref(ImageId(p))]))
               ELSE Ref(ResourcesId(p))
  IN  Dict("PDFPageLeaf",
           [k \in keys |-> IF k = "Resources" THEN res ELSE PageValue(k)])

\* The indirect objects that sample page p brings into the store.
PageObjects(p, shape) ==
  LET page == PageId(p) :> SamplePage(p, shape)
      image == ImageId(p) :> SampleImage
  IN  CASE shape = "plain" ->
             page @@ (ResourcesId(p) :> Dict("PDFDict", [k \in {"Font"} |-> Lit]))
        [] shape = "rich" ->
             page @@ image
               @@ (ResourcesId(p) :> SampleResources(Ref(XObjectId(p))))
               @@ (XObjectId(p) :> Dict("PDFDict", [n \in {"Im1"} |-> Ref(ImageId(p))]))
        [] shape = "dangling" -> page
        [] shape = "wrongtype" -> page @@ (ResourcesId(p) :> Arr(<<>>))
        [] OTHER -> page @@ image

RECURSIVE AllPageObjects(_, _)
\* The indirect objects of the pages 1..n of the shapes given.
AllPageObjects(shapes, n) ==
  IF n = 0 THEN EmptyContext
  ELSE PageObjects(n, shapes[n]) @@ AllPageObjects(shapes, n - 1)

\* The document a file parses to: its object store and its trailer.
SampleDocument(meta, shapes) ==
  [ctx |->
     (CatalogId :> SampleCatalog(meta))
       @@ (PagesId :> Dict("PDFPageTree",
             [k \in {"Type", "Kids", "Count"} |->
                CASE k = "Type" -> Name("Pages")
                  [] k = "Kids" -> Arr([p \in 1..Len(shapes) |-> Ref(PageId(p))])
                  [] OTHER -> Num(Len(shapes))]))
       @@ (IF meta = "full"
             THEN InfoId :> Dict("PDFDict", [k \in {"Title", "Producer"} |-> Lit])
             ELSE EmptyContext)
       @@ AllPageObjects(shapes, Len(shapes)),
   trailer |-> [Root |-> Ref(CatalogId),
                Info |-> IF meta = "full" THEN Ref(InfoId) ELSE Undefined]]

\* A document whose trailer names a root object that is not in the file.
RootlessDocument ==
  [ctx |-> (InfoId :> Dict("PDFDict", [k \in {"Title"} |-> Lit])),
   trailer |-> [Root |-> Ref(CatalogId), Info |-> Ref(InfoId)]]

\* The documents of the readable, parsable files of this model.
Documents ==
  {SampleDocument(meta, shapes) :
     meta \in {"bare", "full"},
     shapes \in UNION {[1..n -> PageShapes] : n \in 1..MaxPages}}
    \cup {RootlessDocument}

\* The File of a request: one that cannot be read (file.arrayBuffer
\* rejects), one whose bytes do not parse (PDFDocument.load rejects), or a
\* PDF, given by the document it parses to.
Files ==
  {[content |-> "pdf", doc |-> d] : d \in Documents}
    \cup {[content |-> c, doc |-> [ctx |-> EmptyContext, trailer |-> EmptyTrailer]] :
            c \in {"unreadable", "garbage"}}

(* ---------------------------------------------------------------------- *)
(* The stages of the pipeline, as functions of the graph                    *)
(* A graph g is [ctx, trailer]; a stage returns the graph it leaves behind, *)
(* whether something raised inside it (failed) and whether the exception    *)
(* left the stage (threw).                                                  *)
(* ---------------------------------------------------------------------- *)

\* The outcome of a stage body that ran to its end or raised part-way.
Outcome(ctx, trailer, raised) ==
  [ctx |-> ctx, trailer |-> trailer, failed |-> raised, threw |-> raised]

\* A stage body wrapped in try/catch: the exception is logged and dropped.
guarded(r) == [r EXCEPT !.threw = FALSE]

\* A stage body with no try/catch: the exception reaches the caller.
unguarded(r) == r

\* PDFDocument.getPages / getPageCount: the page refs of the page tree, in
\* order; raises when the catalog or the page tree cannot be resolved.
computePages(g) ==
  LET catalog == lookup(g.ctx, g.trailer.Root)
      tree == IF IsDict(catalog) /\ catalog.cls = "PDFCatalog" /\ has(catalog, "Pages")
                THEN lookup(g.ctx, get(catalog, "Pages"))
                ELSE Undefined
      kids == IF IsDict(tree) /\ has(tree, "Kids") THEN lookup(g.ctx, get(tree, "Kids"))
              ELSE Undefined
      ok == /\ kids.t = "array"
            /\ \A i \in 1..Len(kids.items) :
                 LET kid == lookup(g.ctx, kids.items[i])
                 IN  IsRef(kids.items[i]) /\ IsDict(kid) /\ kid.cls = "PDFPageLeaf"
  IN  [raised |-> ~ok, pages |-> IF ok THEN kids.items ELSE <<>>]

\* The store with the keys removed from every page of the list.
deleteOnPages(ctx, pages, keys) ==
  [id \in DOMAIN ctx |->
     IF \E i \in 1..Len(pages) : pages[i] = Ref(id)
       THEN deleteEach(ctx[id], keys)
       ELSE ctx[id]]

\* The assignment hitting the Root entry of the trailer instead of Info.
clearInfo_ClearsRoot(trailer) == [trailer EXCEPT !.Root = Undefined]

\* `pdfDoc.context.trailerInfo.Info = undefined`.
clearInfo(trailer) == [trailer EXCEPT !.Info = Undefined]

\* removeMetadata of the enhanced worker, inside its try block.
removeMetadataBody(g, pages) ==
  LET catalog == lookup(g.ctx, g.trailer.Root)
  IN  IF ~IsDict(catalog) THEN Outcome(g.ctx, g.trailer, TRUE)
      ELSE LET pruned == deleteEach(catalog,
                           {"Metadata", "MarkInfo", "Outlines"} \cup unnecessaryEntries)
               ctx1 == [g.ctx EXCEPT ![g.trailer.Root.n] = pruned]
           IN  Outcome(deleteOnPages(ctx1, pages, {"Thumb"}), clearInfo(g.trailer), FALSE)

\* removeMetadata of the enhanced worker.
removeMetadata(g, pages) == guarded(removeMetadataBody(g, pages))

\* removeMetadata of the module worker: Metadata and the Info reference only,
\* with no try/catch of its own.
removeMetadataModule(g) ==
  LET catalog == lookup(g.ctx, g.trailer.Root)
  IN  IF ~IsDict(catalog) THEN unguarded(Outcome(g.ctx, g.trailer, TRUE))
      ELSE unguarded(Outcome([g.ctx EXCEPT ![g.trailer.Root.n] = delete(catalog, "Metadata")],
                             clearInfo(g.trailer), FALSE))

\* optimizeResourcesDictionary, given the reference the caller resolved:
\* at level high without preserveQuality it calls resources.has, which
\* raises when the reference resolved to nothing or to a non-dictionary.
optimizeResourcesDictionary(ctx, resourcesRef, options) ==
  LET resources == lookup(ctx, resourcesRef)
  IN  IF options.compressionLevel = "high" /\ ~options.preserveQuality
        THEN IF IsDict(resources)
               THEN [ctx |-> [ctx EXCEPT ![resourcesRef.n] = delete(resources, "ProcSet")],
                     raised |-> FALSE]
               ELSE [ctx |-> ctx, raised |-> TRUE]
        ELSE [ctx |-> ctx, raised |-> FALSE]

\* A page loop that prunes a Resources dictionary stored inline as well.
optimizePage_InlineToo(ctx, pageRef, options) ==
  LET dict == lookup(ctx, pageRef)
      res == get(dict, "Resources")
  IN  IF options.compressionLevel = "high" /\ ~options.preserveQuality
           /\ has(dict, "Resources") /\ IsDict(res)
        THEN [ctx |-> [ctx EXCEPT ![pageRef.n] =
                         [dict EXCEPT !.d["Resources"] = delete(res, "ProcSet")]],
              raised |-> FALSE]
        ELSE [ctx |-> ctx, raised |-> FALSE]

\* One iteration of the page loop of optimizeContentStreams.
optimizePage(ctx, pageRef, options) ==
  LET dict == lookup(ctx, pageRef)
      high == options.compressionLevel = "high"
      d1 == IF high /\ ~options.preserveQuality THEN delete(dict, "Annots") ELSE dict
      d2 == IF high THEN deleteEach(d1, pageEntriesToRemove) ELSE d1
      ctx1 == [ctx EXCEPT ![pageRef.n] = d2]
  IN  IF has(d2, "Resources") /\ IsRef(get(d2, "Resources"))
        THEN optimizeResourcesDictionary(ctx1, get(d2, "Resources"), options)
        ELSE [ctx |-> ctx1, raised |-> FALSE]

RECURSIVE optimizePagesFrom(_, _, _, _)
\* The page loop of optimizeContentStreams from page i on: it stops at the
\* first page that raises, leaving the later pages as they were.
optimizePagesFrom(ctx, pages, i, options) ==
  IF i > Len(pages) THEN [ctx |-> ctx, raised |-> FALSE]
  ELSE CHOOSE out \in
         {IF r.raised THEN r ELSE optimizePagesFrom(r.ctx, pages, i + 1, options) :
            r \in {optimizePage(ctx, pages[i], options)}} : TRUE

\* optimizeContentStreams without its try/catch.
optimizeContentStreams_NoCatch(g, pages, options) ==
  CHOOSE out \in {unguarded(Outcome(r.ctx, g.trailer, r.raised)) :
                    r \in {optimizePagesFrom(g.ctx, pages, 1, options)}} : TRUE

\* optimizeContentStreams of the enhanced worker.
optimizeContentStreams(g, pages, options) ==
  CHOOSE out \in {guarded(Outcome(r.ctx, g.trailer, r.raised)) :
                    r \in {optimizePagesFrom(g.ctx, pages, 1, options)}} : TRUE

\* One iteration of the page loop of processImages raises: the Resources
\* reference resolves to nothing or to a non-dictionary, or the XObject
\* reference resolves to something that has no dict property.  Nothing is
\* written: Object.entries of the Map inside a PDFDict is empty, so no image
\* is ever visited.
imagesPageRaises(ctx, pageRef) ==
  LET dict == lookup(ctx, pageRef)
      resources == lookup(ctx, get(dict, "Resources"))
      xObject == lookup(ctx, get(resources, "XObject"))
  IN  /\ has(dict, "Resources")
      /\ IsRef(get(dict, "Resources"))
      /\ \/ ~IsDict(resources)
         \/ /\ has(resources, "XObject")
            /\ IsRef(get(resources, "XObject"))
            /\ xObject.t \notin {"dict", "stream"}

\* processImages that strips the Filter entry of the images it visits.
processImages_StripsFilter(g, pages, options) ==
  guarded(Outcome([n \in DOMAIN g.ctx |->
                     IF g.ctx[n].t = "stream" THEN delete(g.ctx[n], "Filter")
                     ELSE g.ctx[n]],
                  g.trailer, FALSE))

\* processImages of the enhanced worker.
processImages(g, pages, options) ==
  guarded(Outcome(g.ctx, g.trailer,
                  \E i \in 1..Len(pages) : imagesPageRaises(g.ctx, pages[i])))

\* optimizeDocumentStructure of the enhanced worker, inside its try block.
optimizeDocumentStructureBody(g, options) ==
  LET catalog == lookup(g.ctx, g.trailer.Root)
      c1 == IF options.compressionLevel = "high"
              THEN deleteEach(catalog, {"StructTreeRoot", "OCProperties"})
              ELSE catalog
      c2 == IF has(c1, "Names") /\ IsDict(get(c1, "Names"))
              THEN [c1 EXCEPT !.d["Names"] = delete(get(c1, "Names"), "EmbeddedFiles")]
              ELSE c1
  IN  IF ~IsDict(catalog) THEN Outcome(g.ctx, g.trailer, TRUE)
      ELSE Outcome([g.ctx EXCEPT ![g.trailer.Root.n] = c2], g.trailer, FALSE)

\* optimizeDocumentStructure of the enhanced worker.
optimizeDocumentStructure(g, options) == guarded(optimizeDocumentStructureBody(g, options))

\* removeUnnecessaryObjects of the module worker: thumbnails at medium and
\* high, annotations at high without preserveQuality; no try/catch.
removeUnnecessaryObjects(g, pages, options) ==
  LET level == options.compressionLevel
      keys == IF level = "high" /\ ~options.preserveQuality
                THEN {"Thumb", "Annots"} ELSE {"Thumb"}
  IN  IF level \in {"medium", "high"}
        THEN unguarded(Outcome(deleteOnPages(g.ctx, pages, keys), g.trailer, FALSE))
        ELSE unguarded(Outcome(g.ctx, g.trailer, FALSE))

\* optimizeContentStreams and processImages of the module worker: empty.
noopStage(g) == unguarded(Outcome(g.ctx, g.trailer, FALSE))

(* ---------------------------------------------------------------------- *)
(* Messages and milestones                                                  *)
(* ---------------------------------------------------------------------- *)

\* reportProgress(percent): a progress message.
Progress(p) == [type |-> "progress", progress |-> p]

\* The terminal success message.
Complete == [type |-> "complete"]

\* The terminal error message posted by the catch block of self.onmessage.
Error == [type |-> "error"]

\* The percentages a worker reports once the step named has been passed.
milestones(v, step, options) ==
  IF v = "enhanced"
    THEN CASE step = "start" -> <<5>>
           [] step = "loaded" -> <<10>>
           [] step = "analyzed" -> <<15>>
           [] step = "strip" -> <<25>>
           [] step = "content" -> <<40>>
           [] step = "images" -> <<70>>
           [] step = "structure" -> <<85>>
           [] OTHER -> <<100>>
  ELSE IF v = "inline"
    THEN CASE step = "start" -> <<10>>
           [] step = "loaded" -> <<20>>
           [] step = "analyzed" -> <<50>>
           [] step = "done" -> <<100>>
           [] OTHER -> <<>>
    ELSE CASE step = "start" -> <<10>>
           [] step = "loaded" -> <<20>>
           [] step = "analyzed" -> <<30>>
           [] step = "strip" ->
                IF options.compressionLevel = "high" THEN <<35>> ELSE <<>>
           [] step = "content" -> <<50>>
           [] step = "images" -> <<70>>
           [] step = "structure" -> <<80, 90>>
           [] OTHER -> <<100>>

\* The progress messages of a step, with the image milestone reported as 20.
report_ImagesRegress(v, step, options) ==
  LET ms == IF step = "images" THEN <<20>> ELSE milestones(v, step, options)
  IN  [i \in 1..Len(ms) |-> Progress(ms[i])]

\* The progress messages of a step.
report(v, step, options) ==
  LET ms == milestones(v, step, options)
  IN  [i \in 1..Len(ms) |-> Progress(ms[i])]

\* The names of the pipeline's stages, in the order of the design.
StageOrder ==
  <<"Load", "StripMetadata", "OptimizeContentStreams", "ProcessImages",
    "OptimizeStructure", "Save", "Done">>

\* The interior stages.
InteriorStages ==
  {"StripMetadata", "OptimizeContentStreams", "ProcessImages", "OptimizeStructure"}

\* One entry of the log of stages run.
Ran(name, failed) == [name |-> name, outcome |-> IF failed THEN "failed" ELSE "ok"]

(* ---------------------------------------------------------------------- *)
(* State                                                                    *)
(* ---------------------------------------------------------------------- *)

VARIABLES
  variant,        \* the worker script that runs
  file,           \* the file of the request
  options,        \* the options of the request
  wpc,            \* where self.onmessage of the worker is
  ctx,            \* pdfDoc.context.indirectObjects
  trailerInfo,    \* pdfDoc.context.trailerInfo
  pages,          \* the refs of pdfDoc.getPages()
  stages,         \* the stages run so far, with their outcomes
  sent,           \* every message the worker posted, in order
  delivered,      \* how many of them worker.onmessage of the service handled
  errorEvent,     \* the worker's error event: none, pending, handled
  workerState,    \* the Worker object: none, running, terminated
  promise,        \* the promise of compressPDF: none, pending, resolved, rejected
  progressCalls,  \* the values onProgress was called with, in order
  firstPass,      \* the graph a first pass of the pruning stages left behind
  imageObj,       \* the image dictionary handed to processImageXObject
  downsampleFactor, \* the local downsampleFactor of processImageXObject, in thousandths
  originalSize,   \* the local originalSize of self.onmessage: file.size
  compressedSize, \* the local compressedSize of self.onmessage: compressedBlob.size
  result,         \* the CompressionResult the promise was resolved with
  workers,        \* the Worker objects created by createWorker, in order
  requests,       \* the calls of compressPDF that run side by side
  cancels,        \* how many times cancel() of a cancelable compression was called
  app,            \* which App is rendered: the one calling the service or the simulated one
  lastEvent,      \* the handler or callback of the App that ran last
  mounted,        \* the App component: "none", "mounted" or "unmounted"
  fileState,      \* the fileState of the App
  effect,         \* what the cleanup of the App's last effect closes over
  compressions,   \* the calls of the service the App has made, by outcome
  objectURLs      \* the object URLs created so far and those still live

vars ==
  <<variant, file, options, wpc, ctx, trailerInfo, pages, stages, sent,
    delivered, errorEvent, workerState, promise, progressCalls,
    firstPass, imageObj, downsampleFactor, originalSize, compressedSize, result,
    workers, requests, cancels, app, lastEvent, mounted, fileState, effect, compressions,
    objectURLs>>

graphVars == <<ctx, trailerInfo, pages>>
requestVars == <<variant, file, options>>
hostVars == <<delivered, errorEvent, workerState, promise, progressCalls>>

\* The state of the stage functions called on their own, outside a request.
callVars == <<firstPass, imageObj, downsampleFactor>>

\* The state of the App component and of the object URLs of the page.
appVars == <<app, lastEvent, mounted, fileState, effect, compressions, objectURLs>>

\* The state of the other uses of the service: several calls running side
\* by side, a compression that can be canceled, and the App.
sideVars == <<workers, requests, cancels, appVars>>

\* The sizes the worker measures and the result the caller is given.
resultVars == <<originalSize, compressedSize, result>>

\* What no step of a request changes.
fixedVars == <<requestVars, callVars, resultVars, sideVars>>

\* No stage function has been called on its own.
NoCall ==
  /\ firstPass = <<>>
  /\ imageObj = Undefined
  /\ downsampleFactor = <<>>

\* useState's initial fileState (file, blob and URLs: 0 is null).
InitialFileState ==
  [file |-> 0, preview |-> 0, compressedFile |-> 0, compressedPreview |-> 0,
   originalSize |-> 0, compressedSize |-> 0, isProcessing |-> FALSE,
   progress |-> 0, error |-> ""]

\* The App has not been rendered.
NoApp ==
  /\ app = "service"
  /\ lastEvent = ""
  /\ mounted = "none"
  /\ fileState = InitialFileState
  /\ effect = [preview |-> 0, compressedPreview |-> 0]
  /\ compressions = <<>>
  /\ objectURLs = [created |-> 0, live |-> {}]

\* The service has not been called side by side, nothing was canceled and
\* there is no App.
NoSide ==
  /\ workers = <<>>
  /\ requests = <<>>
  /\ cancels = 0
  /\ NoApp

\* No size has been measured and no result delivered.
NoResult ==
  /\ originalSize = 0
  /\ compressedSize = 0
  /\ result = <<>>

\* The graph the worker holds.
graph == [ctx |-> ctx, trailer |-> trailerInfo]

Init ==
  /\ variant \in Variants
  /\ file \in Files
  /\ options \in OptionsSet
  /\ wpc = "init"
  /\ ctx = EmptyContext
  /\ trailerInfo = EmptyTrailer
  /\ pages = <<>>
  /\ stages = <<>>
  /\ sent = <<>>
  /\ delivered = 0
  /\ errorEvent = "none"
  /\ workerState = "none"
  /\ promise = "none"
  /\ progressCalls = <<>>
  /\ NoCall
  /\ NoSide
  /\ NoResult

(* ---------------------------------------------------------------------- *)
(* The service: compressPDF                                                 *)
(* ---------------------------------------------------------------------- *)

\* resolve or reject of a promise: only a pending promise changes.
settle(p, outcome) == IF p = "pending" THEN outcome ELSE p

\* worker.onmessage with no case for the error message.
onmessagePromise_NoErrorCase(msg, p) ==
  IF msg.type = "complete" THEN settle(p, "resolved") ELSE p

\* What worker.onmessage does to the promise.
onmessagePromise(msg, p) ==
  CASE msg.type = "complete" -> settle(p, "resolved")
    [] msg.type = "error" -> settle(p, "rejected")
    [] OTHER -> p

\* A handler that leaves the worker running after an error message.
onmessageWorker_KeepsOnError(msg, w) ==
  IF msg.type = "complete" THEN "terminated" ELSE w

\* What worker.onmessage does to the worker: terminate after a terminal message.
onmessageWorker(msg, w) ==
  IF msg.type \in {"complete", "error"} THEN "terminated" ELSE w

\* A handler that calls onProgress for every message it is given.
onmessageProgress_EveryMessage(msg, calls) ==
  Append(calls, IF msg.type = "progress" THEN msg.progress ELSE 100)

\* What worker.onmessage passes to onProgress.
onmessageProgress(msg, calls) ==
  IF msg.type = "progress" THEN Append(calls, msg.progress) ELSE calls

\* compressPDF: create the worker, set its handlers, post the request.
Submit ==
  /\ promise = "none"
  /\ promise' = "pending"
  /\ workerState' = "running"
  /\ UNCHANGED <<fixedVars, wpc, graphVars, stages, sent, delivered,
                 errorEvent, progressCalls>>

\* worker.onmessage of the service handles the next message of the worker.
HostMessage ==
  /\ workerState = "running"
  /\ delivered < Len(sent)
  /\ LET msg == sent[delivered + 1]
     IN  /\ promise' = onmessagePromise(msg, promise)
         /\ workerState' = onmessageWorker(msg, workerState)
         /\ progressCalls' = onmessageProgress(msg, progressCalls)
  /\ delivered' = delivered + 1
  /\ UNCHANGED <<fixedVars, wpc, graphVars, stages, sent, errorEvent>>

\* worker.onerror of the service: reject and terminate.
HostError ==
  /\ workerState = "running"
  /\ errorEvent = "pending"
  /\ errorEvent' = "handled"
  /\ promise' = settle(promise, "rejected")
  /\ workerState' = "terminated"
  /\ UNCHANGED <<fixedVars, wpc, graphVars, stages, sent, delivered,
                 progressCalls>>

(* ---------------------------------------------------------------------- *)
(* The worker: self.onmessage                                               *)
(* ---------------------------------------------------------------------- *)

\* The gate in front of removeMetadata: the enhanced worker always calls it,
\* the module worker only at level high.
stripRuns(v, opts) == v = "enhanced" \/ (v = "module" /\ opts.compressionLevel = "high")

\* Where a worker script goes on from pc: the inline script has no stage
\* between getPageCount and save.
skipStages(v, pc) == IF v = "inline" /\ pc = "strip" THEN "save" ELSE pc

\* The metadata stage of each worker.
stripStage(v, g, pgs, opts) ==
  IF v = "enhanced" THEN removeMetadata(g, pgs) ELSE removeMetadataModule(g)

\* The content stage of each worker.
contentStage(v, g, pgs, opts) ==
  IF v = "enhanced" THEN optimizeContentStreams(g, pgs, opts) ELSE noopStage(g)

\* The image stage of each worker.
imagesStage(v, g, pgs, opts) ==
  IF v = "enhanced" THEN processImages(g, pgs, opts) ELSE noopStage(g)

\* The structure stage of each worker.
structureStage(v, g, pgs, opts) ==
  IF v = "enhanced" THEN optimizeDocumentStructure(g, opts)
  ELSE removeUnnecessaryObjects(g, pgs, opts)

\* A failed load that falls through to the stages.
afterLoad_FallsThrough(failed) == "strip"

\* A failed save that falls through to the packaging of the result.
afterSave_FallsThrough(failed) == "package"

\* A failed save that is tried again.
afterSave_Retry(failed) == IF failed THEN "save" ELSE "package"

\* Where self.onmessage goes after PDFDocument.load and getPageCount: to its
\* catch block when either raised, else on to the stages.
afterLoad(failed) == IF failed THEN "done" ELSE "strip"

\* Where self.onmessage goes after savePdfWithOptions.
afterSave(failed) == IF failed THEN "done" ELSE "package"

\* Where self.onmessage goes after a stage: an exception that left the stage
\* reaches the catch block.
afterStage(threw, next) == IF threw THEN "done" ELSE next

\* What is posted once the bytes are saved: progress 100, then the result;
\* when posting the result raises, the catch block posts the error instead.
packageMessages(v, opts, posted) ==
  report(v, "done", opts) \o (IF posted THEN <<Complete>> ELSE <<Error>>)

\* The worker script fails to load (importScripts / import): the Worker
\* object fires its error event and self.onmessage never runs.
WorkerScriptError ==
  /\ workerState = "running"
  /\ wpc = "init"
  /\ wpc' = "crashed"
  /\ errorEvent' = "pending"
  /\ UNCHANGED <<fixedVars, graphVars, stages, sent, delivered,
                 workerState, promise, progressCalls>>

\* self.onmessage starts: the first progress report.
WorkerStart ==
  /\ workerState = "running"
  /\ wpc = "init"
  /\ wpc' = "load"
  /\ sent' = sent \o report(variant, "start", options)
  /\ UNCHANGED <<fixedVars, graphVars, stages, hostVars>>

\* Load: file.arrayBuffer, PDFDocument.load and getPageCount.
WorkerLoad ==
  /\ workerState = "running"
  /\ wpc = "load"
  /\ IF file.content # "pdf"
       THEN /\ stages' = Append(stages, Ran("Load", TRUE))
            /\ sent' = sent \o <<Error>>
            /\ wpc' = afterLoad(TRUE)
            /\ UNCHANGED graphVars
       ELSE \E cp \in {computePages(file.doc)} :
                /\ ctx' = file.doc.ctx
                /\ trailerInfo' = file.doc.trailer
                /\ pages' = cp.pages
                /\ stages' = Append(stages, Ran("Load", cp.raised))
                /\ wpc' = skipStages(variant, afterLoad(cp.raised))
                /\ sent' = sent \o report(variant, "loaded", options)
                                \o (IF cp.raised THEN <<Error>>
                                    ELSE report(variant, "analyzed", options))
  /\ UNCHANGED <<fixedVars, hostVars>>

\* A stage has returned r: log it, keep its graph, and go on or to the catch.
StageDone(name, r, step, next) ==
  /\ stages' = Append(stages, Ran(name, r.failed))
  /\ ctx' = r.ctx
  /\ trailerInfo' = r.trailer
  /\ wpc' = afterStage(r.threw, next)
  /\ sent' = sent \o (IF r.threw THEN <<Error>> ELSE report(variant, step, options))
  /\ UNCHANGED <<fixedVars, pages, hostVars>>

\* StripMetadata.
WorkerStrip ==
  /\ workerState = "running"
  /\ wpc = "strip"
  /\ IF stripRuns(variant, options)
       THEN \E r \in {stripStage(variant, graph, pages, options)} :
              StageDone("StripMetadata", r, "strip", "content")
       ELSE /\ wpc' = "content"
            /\ sent' = sent \o report(variant, "strip", options)
            /\ UNCHANGED <<fixedVars, graphVars, stages, hostVars>>

\* OptimizeContentStreams.
WorkerContent ==
  /\ workerState = "running"
  /\ wpc = "content"
  /\ \E r \in {contentStage(variant, graph, pages, options)} :
       StageDone("OptimizeContentStreams", r, "content", "images")

\* ProcessImages.
WorkerImages ==
  /\ workerState = "running"
  /\ wpc = "images"
  /\ \E r \in {imagesStage(variant, graph, pages, options)} :
       StageDone("ProcessImages", r, "images", "structure")

\* OptimizeStructure.
WorkerStructure ==
  /\ workerState = "running"
  /\ wpc = "structure"
  /\ \E r \in {structureStage(variant, graph, pages, options)} :
       StageDone("OptimizeStructure", r, "structure", "save")

\* Save: savePdfWithOptions either returns the bytes or raises.
WorkerSave ==
  /\ workerState = "running"
  /\ wpc = "save"
  /\ \E saved \in BOOLEAN :
       /\ stages' = Append(stages, Ran("Save", ~saved))
       /\ wpc' = afterSave(~saved)
       /\ sent' = sent \o (IF saved THEN <<>> ELSE <<Error>>)
  /\ UNCHANGED <<fixedVars, graphVars, hostVars>>

\* Done: the blob is made, progress 100 is reported and the result posted.
WorkerPackage ==
  /\ workerState = "running"
  /\ wpc = "package"
  /\ \E posted \in BOOLEAN :
       /\ sent' = sent \o packageMessages(variant, options, posted)
       /\ stages' = Append(stages, Ran("Done", ~posted))
  /\ wpc' = "done"
  /\ UNCHANGED <<fixedVars, graphVars, hostVars>>

Worker ==
  \/ WorkerScriptError
  \/ WorkerStart
  \/ WorkerLoad
  \/ WorkerStrip
  \/ WorkerContent
  \/ WorkerImages
  \/ WorkerStructure
  \/ WorkerSave
  \/ WorkerPackage

Host == HostMessage \/ HostError

Next == Submit \/ Worker \/ Host

Spec == Init /\ [][Next]_vars

\* The requests of the liveness runs: every variant, option and kind of
\* file, with the documents of at most MaxLivePages pages (and those whose
\* getPageCount raises).
FairInit ==
  /\ Init
  /\ \E cp \in {computePages(file.doc)} : cp.raised \/ Len(cp.pages) <= MaxLivePages

\* The worker thread and the event loop of the page both keep running.
FairSpec == FairInit /\ [][Next]_vars /\ WF_vars(Worker) /\ WF_vars(Host)

(* ---------------------------------------------------------------------- *)
(* The pruning stages of the enhanced worker, run twice over one graph      *)
(* ---------------------------------------------------------------------- *)

\* The files whose document loads: PDFDocument.load and getPageCount return.
LoadableFiles == {f \in Files : f.content = "pdf" /\ ~computePages(f.doc).raised}

\* A document has just been loaded by the enhanced worker and no stage has
\* run on it yet.
PruneInit ==
  /\ variant = "enhanced"
  /\ file \in LoadableFiles
  /\ options \in OptionsSet
  /\ wpc = "strip"
  /\ ctx = file.doc.ctx
  /\ trailerInfo = file.doc.trailer
  /\ pages = computePages(file.doc).pages
  /\ stages = <<>>
  /\ sent = <<>>
  /\ delivered = 0
  /\ errorEvent = "none"
  /\ workerState = "none"
  /\ promise = "none"
  /\ progressCalls = <<>>
  /\ NoCall
  /\ NoSide
  /\ NoResult

\* A pruning stage has returned r: log it and keep its graph.
Pruned(name, r, next) ==
  /\ stages' = Append(stages, Ran(name, r.failed))
  /\ ctx' = r.ctx
  /\ trailerInfo' = r.trailer
  /\ wpc' = next
  /\ UNCHANGED <<requestVars, pages, sent, hostVars, imageObj, downsampleFactor,
                 resultVars, sideVars>>

\* removeMetadata(pdfDoc).
PruneStrip ==
  /\ wpc = "strip"
  /\ \E r \in {removeMetadata(graph, pages)} : Pruned("StripMetadata", r, "content")
  /\ UNCHANGED firstPass

\* optimizeContentStreams(pdfDoc, options).
PruneContent ==
  /\ wpc = "content"
  /\ \E r \in {optimizeContentStreams(graph, pages, options)} :
       Pruned("OptimizeContentStreams", r, "structure")
  /\ UNCHANGED firstPass

\* optimizeDocumentStructure(pdfDoc, options); the graph the first pass
\* leaves behind is kept, and the three stages are then called once more.
PruneStructure ==
  /\ wpc = "structure"
  /\ \E r \in {optimizeDocumentStructure(graph, options)} :
       /\ Pruned("OptimizeStructure", r, IF firstPass = <<>> THEN "strip" ELSE "pruned")
       /\ firstPass' = IF firstPass = <<>>
                         THEN <<[ctx |-> r.ctx, trailer |-> r.trailer]>>
                         ELSE firstPass

PruneNext == PruneStrip \/ PruneContent \/ PruneStructure

PruneSpec == PruneInit /\ [][PruneNext]_vars

(* ---------------------------------------------------------------------- *)
(* processImageXObject of the enhanced worker, called on one image          *)
(* Factors are counted in thousandths: 1000 is the factor 1.                *)
(* ---------------------------------------------------------------------- *)

\* Sampled values of an image's Width and Height.
ImageSizes == {50, 99, 100, 1000, 1001, 1500, 2000}

\* Sampled values of options.quality for the image factor.
ImageQualities == {0, 25, 29, 30, 40, 41, 60, 61, 80, 81, 95, 100}

\* The options processImageXObject is called with.
ImageOptionsSet ==
  [quality : ImageQualities, compressionLevel : Levels, preserveQuality : BOOLEAN]

\* An image dictionary with the entries given.
ImageDict(keys, w, h) ==
  Dict("PDFDict",
       [k \in keys |->
          CASE k = "Subtype" -> Name("Image")
            [] k = "Width" -> Num(w)
            [] k = "Height" -> Num(h)
            [] OTHER -> Name("JPXDecode")])

\* The image dictionaries of this model: with Width and Height, and with
\* one of the two missing.
ImageObjs ==
  {ImageDict({"Subtype", "Width", "Height", "Filter"}, w, h) :
     w \in ImageSizes, h \in ImageSizes}
    \cup {ImageDict({"Subtype", "Height"}, 2000, 1500),
          ImageDict({"Subtype", "Width", "Filter"}, 2000, 1500)}

\* A factor in thousandths divided by a number of tenths.
timesTenths_Divides(factor, tenths) == (factor * 10) \div tenths

\* `downsampleFactor *= 0.8`, `downsampleFactor *= 0.7`: a factor in
\* thousandths times a number of tenths.
timesTenths(factor, tenths) == (factor * tenths) \div 10

\* The test for a very small image with `&&` in the place of `||`.
verySmall_Both(width, height) == width < 100 /\ height < 100

\* `width < 100 || height < 100`.
verySmall(width, height) == width < 100 \/ height < 100

\* The switch on options.compressionLevel that sets downsampleFactor.
switchLevel(opts) ==
  CASE opts.compressionLevel = "low" -> IF opts.quality > 80 THEN 1000 ELSE 900
    [] opts.compressionLevel = "medium" -> IF opts.quality > 60 THEN 800 ELSE 700
    [] opts.compressionLevel = "high" -> IF opts.quality > 40 THEN 600 ELSE 500
    [] OTHER -> 1000

\* The test for a larger image with `&&` in the place of `||`.
largerImage_Both(width, height) == width > 1000 /\ height > 1000

\* `width > 1000 || height > 1000`.
largerImage(width, height) == width > 1000 \/ height > 1000

\* processImageXObject: the final value of its local downsampleFactor, as
\* a one-element sequence; empty when the function returns before setting
\* it (Width or Height missing, or one of them below 100).  The function
\* writes nothing: its Filter branch is empty.
processImageXObject(obj, opts) ==
  IF ~has(obj, "Width") \/ ~has(obj, "Height") THEN <<>>
  ELSE LET width == get(obj, "Width").v
           height == get(obj, "Height").v
           f0 == switchLevel(opts)
           f1 == IF largerImage(width, height) THEN timesTenths(f0, 8) ELSE f0
           f2 == IF opts.compressionLevel = "high" /\ opts.quality < 30
                   THEN timesTenths(f1, 7) ELSE f1
       IN  IF verySmall(width, height) THEN <<>> ELSE <<f2>>

\* The enhanced worker has loaded a document and is about to call
\* processImageXObject on an image dictionary.
ImageInit ==
  /\ variant = "enhanced"
  /\ file = [content |-> "pdf", doc |-> SampleDocument("bare", <<"rich">>)]
  /\ options \in ImageOptionsSet
  /\ wpc = "image"
  /\ ctx = file.doc.ctx
  /\ trailerInfo = file.doc.trailer
  /\ pages = computePages(file.doc).pages
  /\ stages = <<>>
  /\ sent = <<>>
  /\ delivered = 0
  /\ errorEvent = "none"
  /\ workerState = "none"
  /\ promise = "none"
  /\ progressCalls = <<>>
  /\ firstPass = <<>>
  /\ imageObj \in ImageObjs
  /\ downsampleFactor = <<>>
  /\ NoResult
  /\ NoSide

\* processImageXObject(pdfDoc, imageObj, imageRef, options) runs and returns.
ImageCall ==
  /\ wpc = "image"
  /\ wpc' = "returned"
  /\ downsampleFactor' = processImageXObject(imageObj, options)
  /\ UNCHANGED <<requestVars, graphVars, stages, sent, hostVars, firstPass, imageObj,
                 resultVars, sideVars>>

ImageNext == ImageCall

ImageSpec == ImageInit /\ [][ImageNext]_vars

(* ---------------------------------------------------------------------- *)
(* The result: from the saved bytes to the caller's CompressionResult       *)
(* A ratio is kept as the fraction num / den, not reduced.                  *)
(* ---------------------------------------------------------------------- *)

\* Sampled values of file.size.
OriginalSizes == {1000, 1000000}

\* Sampled values of compressedBlob.size.
CompressedSizes == {400, 1000, 400000, 1050000}

\* The ratio with a floor at 0.
compressionRatio_Clamped(original, compressed) ==
  [num |-> IF compressed > original THEN 0 ELSE original - compressed,
   den |-> original]

\* `(originalSize - compressedSize) / originalSize`.
compressionRatio(original, compressed) ==
  [num |-> original - compressed, den |-> original]

\* The data of the complete message.
completeData(original, compressed) ==
  [originalSize |-> original,
   compressedSize |-> compressed,
   compressionRatio |-> compressionRatio(original, compressed)]

\* The complete message with its data.
CompleteWith(data) == [type |-> "complete", data |-> data]

\* What worker.onmessage resolves the promise with: the fields of the
\* complete message, copied; a promise already settled keeps its outcome.
onmessageResult(msg, p, res) ==
  IF msg.type = "complete" /\ p = "pending"
    THEN <<[originalSize |-> msg.data.originalSize,
            compressedSize |-> msg.data.compressedSize,
            compressionRatio |-> msg.data.compressionRatio]>>
    ELSE res

\* The file of the requests whose result is followed.
SavedFile == [content |-> "pdf", doc |-> SampleDocument("full", <<"rich">>)]

\* The graph of a stage's outcome.
graphOf(r) == [ctx |-> r.ctx, trailer |-> r.trailer]

\* The state of self.onmessage right after savePdfWithOptions returned: the
\* graph the four stages left, the stages logged and the progress posted.
SavedState(v, f, opts) ==
  LET pgs == computePages(f.doc).pages
      loaded == report(v, "start", opts) \o report(v, "loaded", opts)
                  \o report(v, "analyzed", opts)
      r1 == IF stripRuns(v, opts) THEN stripStage(v, f.doc, pgs, opts)
            ELSE noopStage(f.doc)
      r2 == contentStage(v, graphOf(r1), pgs, opts)
      r3 == imagesStage(v, graphOf(r2), pgs, opts)
      r4 == structureStage(v, graphOf(r3), pgs, opts)
  IN  IF skipStages(v, "strip") = "save"
        THEN [ctx |-> f.doc.ctx, trailer |-> f.doc.trailer, pages |-> pgs,
              stages |-> <<Ran("Load", FALSE), Ran("Save", FALSE)>>,
              sent |-> loaded]
      ELSE
      [ctx |-> r4.ctx, trailer |-> r4.trailer, pages |-> pgs,
       stages |->
         <<Ran("Load", FALSE)>>
           \o (IF stripRuns(v, opts) THEN <<Ran("StripMetadata", r1.failed)>> ELSE <<>>)
           \o <<Ran("OptimizeContentStreams", r2.failed),
                Ran("ProcessImages", r3.failed),
                Ran("OptimizeStructure", r4.failed),
                Ran("Save", FALSE)>>,
       sent |->
         loaded \o report(v, "strip", opts)
           \o report(v, "content", opts) \o report(v, "images", opts)
           \o report(v, "structure", opts)]

\* A request whose bytes have just been saved: the worker holds the size of
\* the file and is about to measure the blob.
ResultInit ==
  /\ variant \in Variants
  /\ file = SavedFile
  /\ options \in OptionsSet
  /\ wpc = "package"
  /\ \E st \in {SavedState(variant, file, options)} :
       /\ ctx = st.ctx
       /\ trailerInfo = st.trailer
       /\ pages = st.pages
       /\ stages = st.stages
       /\ sent = st.sent
  /\ delivered = 0
  /\ errorEvent = "none"
  /\ workerState = "running"
  /\ promise = "pending"
  /\ progressCalls = <<>>
  /\ NoCall
  /\ NoSide
  /\ originalSize \in OriginalSizes
  /\ compressedSize \in CompressedSizes
  /\ result = <<>>

\* Done: progress 100 is reported and the result posted with its sizes and
\* ratio; when the post raises, the catch block posts the error instead.
ResultPost ==
  /\ workerState = "running"
  /\ wpc = "package"
  /\ \E posted \in BOOLEAN :
       /\ sent' = sent \o report(variant, "done", options)
                       \o (IF posted
                             THEN <<CompleteWith(completeData(originalSize, compressedSize))>>
                             ELSE <<Error>>)
       /\ stages' = Append(stages, Ran("Done", ~posted))
  /\ wpc' = "done"
  /\ UNCHANGED <<requestVars, graphVars, hostVars, callVars, resultVars, sideVars>>

\* worker.onmessage of the service handles the next message of the worker.
ResultDeliver ==
  /\ workerState = "running"
  /\ delivered < Len(sent)
  /\ \E msg \in {sent[delivered + 1]} :
       /\ promise' = onmessagePromise(msg, promise)
       /\ workerState' = onmessageWorker(msg, workerState)
       /\ progressCalls' = onmessageProgress(msg, progressCalls)
       /\ result' = onmessageResult(msg, promise, result)
  /\ delivered' = delivered + 1
  /\ UNCHANGED <<requestVars, wpc, graphVars, stages, sent, errorEvent, callVars,
                 originalSize, compressedSize, sideVars>>

ResultNext == ResultPost \/ ResultDeliver

ResultSpec == ResultInit /\ [][ResultNext]_vars

(* ---------------------------------------------------------------------- *)
(* Two calls of compressPDF side by side                                    *)
(* A worker is [onmessage, inbox, todo, outbox, state]; a call is           *)
(* [input, worker, promise, progressCalls, received, result].  A posted     *)
(* message travels with the number of the call whose job produced it.       *)
(* ---------------------------------------------------------------------- *)

\* The calls.
Requests == {1, 2}

\* The file, its size and the options each call is made with: the two calls
\* differ in all three.
SideInputs ==
  <<[file |-> SavedFile, size |-> 1000000,
     options |-> [quality |-> 25, compressionLevel |-> "low", preserveQuality |-> TRUE]],
    [file |-> [content |-> "pdf", doc |-> SampleDocument("bare", <<"plain">>)],
     size |-> 1000,
     options |-> [quality |-> 25, compressionLevel |-> "high", preserveQuality |-> FALSE]]>>

\* Sampled value of compressedBlob.size for the calls side by side.
SideCompressedSizes == {400}

\* Every message self.onmessage posts for one job, in order, given whether
\* the save and the post of the result go through and what the result is.
runMessages(v, f, opts, saved, posted, complete) ==
  IF f.content # "pdf" THEN report(v, "start", opts) \o <<Error>>
  ELSE IF computePages(f.doc).raised
    THEN report(v, "start", opts) \o report(v, "loaded", opts) \o <<Error>>
  ELSE SavedState(v, f, opts).sent
         \o (IF ~saved THEN <<Error>>
             ELSE report(v, "done", opts) \o (IF posted THEN <<complete>> ELSE <<Error>>))

\* One module-level Worker handed to every caller.
createWorker_Shared(ws) == 1

\* createWorker(): a new Worker object each time it is called.
createWorker(ws) == Len(ws) + 1

\* A Worker object that has just been constructed: its script is still to
\* be loaded and no handler is set.
NewWorker ==
  [onmessage |-> 0, onerror |-> 0, inbox |-> <<>>, todo |-> <<>>, outbox |-> <<>>,
   state |-> "running", script |-> "init", errorEvent |-> "none"]

\* No call has been made yet; each will be made with its input.
SideInit ==
  /\ variant \in Variants
  /\ file = SavedFile
  /\ options = [quality |-> 25, compressionLevel |-> "low", preserveQuality |-> TRUE]
  /\ wpc = "init"
  /\ ctx = EmptyContext
  /\ trailerInfo = EmptyTrailer
  /\ pages = <<>>
  /\ stages = <<>>
  /\ sent = <<>>
  /\ delivered = 0
  /\ errorEvent = "none"
  /\ workerState = "none"
  /\ promise = "none"
  /\ progressCalls = <<>>
  /\ NoCall
  /\ NoResult
  /\ workers = <<>>
  /\ cancels = 0
  /\ NoApp
  /\ requests =
       [i \in Requests |->
          [input |-> SideInputs[i], worker |-> 0, promise |-> "none",
           progressCalls |-> <<>>, received |-> <<>>, result |-> <<>>]]

\* The variables of a single request of the service.
singleVars_Service ==
  <<requestVars, wpc, graphVars, stages, sent, hostVars, callVars, resultVars, cancels>>

\* The main variables of a single request and of the App, which the calls
\* side by side do not use.
singleVars == <<singleVars_Service, appVars>>

\* compressPDF(file, options, onProgress) of call i: create the worker, set
\* its handlers to the closures of this call, post the job.
SideCall(i) ==
  /\ requests[i].promise = "none"
  /\ \E w \in {createWorker(workers)} :
       /\ workers' =
            [k \in 1..(IF w > Len(workers) THEN w ELSE Len(workers)) |->
               LET old == IF k <= Len(workers) THEN workers[k] ELSE NewWorker
               IN  IF k = w THEN [old EXCEPT !.onmessage = i, !.onerror = i,
                                             !.inbox = Append(@, i)]
                   ELSE old]
       /\ requests' = [requests EXCEPT ![i].promise = "pending", ![i].worker = w]
  /\ UNCHANGED singleVars

\* The script of worker w fails to load (importScripts / import): the
\* Worker object fires its error event and self.onmessage never runs.
SideScriptError(w) ==
  /\ workers[w].state = "running"
  /\ workers[w].script = "init"
  /\ workers' = [workers EXCEPT ![w].script = "crashed", ![w].errorEvent = "pending"]
  /\ UNCHANGED <<singleVars, requests>>

\* self.onmessage of worker w, whose script has loaded, starts on the next
\* job it was posted: the messages of the job, each with the number of the
\* call it belongs to.
SideTake(w) ==
  /\ workers[w].state = "running"
  /\ workers[w].script # "crashed"
  /\ workers[w].todo = <<>>
  /\ workers[w].inbox # <<>>
  /\ \E job \in {Head(workers[w].inbox)} :
     \E saved, posted \in BOOLEAN, size \in SideCompressedSizes :
     \E msgs \in {runMessages(variant, requests[job].input.file,
                              requests[job].input.options, saved, posted,
                              CompleteWith(completeData(requests[job].input.size, size)))} :
       workers' =
         [workers EXCEPT
            ![w].script = "loaded",
            ![w].inbox = Tail(@),
            ![w].todo = [k \in 1..Len(msgs) |-> [job |-> job, msg |-> msgs[k]]]]
  /\ UNCHANGED <<singleVars, requests>>

\* Worker w posts the next message of its job.
SidePost(w) ==
  /\ workers[w].state = "running"
  /\ workers[w].todo # <<>>
  /\ workers' = [workers EXCEPT ![w].todo = Tail(@),
                                ![w].outbox = Append(@, Head(workers[w].todo))]
  /\ UNCHANGED <<singleVars, requests>>

\* The onmessage handler set on worker w handles the next message of w: it
\* is a closure of the call that set it, with that call's onProgress,
\* resolve, reject and worker.
SideDeliver(w) ==
  /\ workers[w].state = "running"
  /\ workers[w].outbox # <<>>
  /\ \E env \in {Head(workers[w].outbox)}, h \in {workers[w].onmessage} :
       /\ requests' =
            [requests EXCEPT
               ![h].received = Append(@, env),
               ![h].promise = onmessagePromise(env.msg, @),
               ![h].progressCalls = onmessageProgress(env.msg, @),
               ![h].result = onmessageResult(env.msg, requests[h].promise, @)]
       /\ workers' =
            [k \in 1..Len(workers) |->
               LET popped == IF k = w THEN [workers[k] EXCEPT !.outbox = Tail(@)]
                             ELSE workers[k]
               IN  IF k = requests[h].worker
                     THEN [popped EXCEPT !.state = onmessageWorker(env.msg, @)]
                     ELSE popped]
  /\ UNCHANGED singleVars

\* The onerror handler set on worker w handles the error event of w: it
\* is a closure of the call that set it, with that call's reject and
\* worker.
SideError(w) ==
  /\ workers[w].state = "running"
  /\ workers[w].errorEvent = "pending"
  /\ \E h \in {workers[w].onerror} :
       /\ requests' = [requests EXCEPT ![h].promise = settle(@, "rejected")]
       /\ workers' =
            [k \in 1..Len(workers) |->
               LET handled == IF k = w THEN [workers[k] EXCEPT !.errorEvent = "handled"]
                              ELSE workers[k]
               IN  IF k = requests[h].worker
                     THEN [handled EXCEPT !.state = "terminated"]
                     ELSE handled]
  /\ UNCHANGED singleVars

SideNext ==
  \/ \E i \in Requests : SideCall(i)
  \/ \E w \in 1..Len(workers) :
       \/ SideScriptError(w)
       \/ SideTake(w)
       \/ SidePost(w)
       \/ SideDeliver(w)
       \/ SideError(w)

SideSpec == SideInit /\ [][SideNext]_vars

(* ---------------------------------------------------------------------- *)
(* createCancelableCompression: one request and its cancel()                *)
(* The request is set up and handled as by compressPDF; workerState         *)
(* "terminated" is the closure's `worker` set to null.                      *)
(* ---------------------------------------------------------------------- *)

\* cancel() that leaves the worker alone.
cancelWorker_Keeps(w) == w

\* What cancel() does to the worker: `if (worker) { worker.terminate();
\* worker = null; }`.  Terminating empties the queue of messages the worker
\* has posted and the page has not handled yet.
cancelWorker(w) == IF w = "running" THEN "terminated" ELSE w

\* cancel() of the object createCancelableCompression returned.
Cancel ==
  /\ promise # "none"
  /\ cancels < MaxCancels
  /\ cancels' = cancels + 1
  /\ workerState' = cancelWorker(workerState)
  /\ UNCHANGED <<requestVars, wpc, graphVars, stages, sent, delivered, errorEvent,
                 promise, progressCalls, callVars, resultVars, workers, requests,
                 appVars>>

CancelNext == Submit \/ Worker \/ Host \/ Cancel

\* The worker thread and the event loop of the page keep running; nothing
\* obliges the caller to cancel.
CancelSpec == FairInit /\ [][CancelNext]_vars /\ WF_vars(Worker) /\ WF_vars(Host)

(* ---------------------------------------------------------------------- *)
(* The App component and its preview URLs                                   *)
(* Each action is an event handler followed by the render it causes and    *)
(* the effects of that render.                                              *)
(* ---------------------------------------------------------------------- *)

\* The two Apps: the one that calls the compression service
\* (src/unnamed/part_001) and the one that simulates the compression
\* (src/src/App.tsx).
AppVariants == {"service", "simulated"}

\* What the user can drop: nothing accepted, a file that is not a PDF, a PDF.
DroppedFiles == {"empty", "other", "pdf"}

\* file.size of the PDFs dropped.
DroppedSizes == {90}

\* useState's initial options.
InitialOptions == [quality |-> 80, compressionLevel |-> "medium", preserveQuality |-> TRUE]

\* The positions of the quality slider the user moves it to (of min 10,
\* max 100, step 5).
SliderValues == {50}

\* The progress values and the compressed sizes the service hands the App.
ServiceProgress == {85}
ServiceSizes == {40}

\* The variables of the service and the worker, which the App's handlers
\* leave alone (options is the App's options state here).
serviceVars ==
  <<variant, file, wpc, graphVars, stages, sent, hostVars, callVars, resultVars,
    workers, requests, cancels, app>>

\* URL.revokeObjectURL(url) when url is not null.
revoke(urls, url) == IF url # 0 THEN [urls EXCEPT !.live = @ \ {url}] ELSE urls

\* The cleanup of the effect: revokes the preview and the compressed
\* preview of the render that set the effect up.
cleanup(urls, eff) == revoke(revoke(urls, eff.preview), eff.compressedPreview)

\* The dependencies of the effect, as the render with fileState fs sees them.
deps(fs) == [preview |-> fs.preview, compressedPreview |-> fs.compressedPreview]

\* The render after fileState became fs: when a dependency has changed,
\* the last effect is cleaned up and the effect is set up again.
Commit(fs, urls) ==
  /\ fileState' = fs
  /\ IF deps(fs) # effect
       THEN /\ objectURLs' = cleanup(urls, effect)
            /\ effect' = deps(fs)
       ELSE /\ objectURLs' = urls
            /\ effect' = effect

\* setFileState(update) from a callback that may run after the unmount:
\* React drops the update of a component that is unmounted.
CommitIfMounted(fs, urls) ==
  IF mounted = "mounted" THEN Commit(fs, urls)
  ELSE /\ objectURLs' = urls
       /\ UNCHANGED <<fileState, effect>>

\* URL.createObjectURL: a URL that was never handed out before.
createObjectURL(urls) ==
  [created |-> urls.created + 1, live |-> urls.live \cup {urls.created + 1}]

\* onDrop of a file that is not a PDF, clearing the selection as well.
dropRejected_Resets(fs) ==
  [InitialFileState EXCEPT !.error = "Only PDF files are supported."]

\* onDrop of a file whose type is not application/pdf.
dropRejected(fs) == [fs EXCEPT !.error = "Only PDF files are supported."]

\* onDrop of a PDF: the state is replaced (a file is named by the URL of
\* its preview).
dropAccepted(url, size) ==
  [InitialFileState EXCEPT !.file = url, !.preview = url, !.originalSize = size]

\* onDrop(acceptedFiles).
onDrop ==
  /\ mounted = "mounted"
  /\ \E dropped \in DroppedFiles :
       /\ lastEvent' = "onDrop " \o dropped
       /\ CASE dropped = "empty" ->
                 UNCHANGED <<fileState, effect, objectURLs>>
            [] dropped = "other" ->
                 Commit(dropRejected(fileState), objectURLs)
            [] OTHER ->
                 /\ objectURLs.created < MaxUrls
                 /\ \E urls \in {createObjectURL(objectURLs)}, size \in DroppedSizes :
                      Commit(dropAccepted(urls.created, size), urls)
  /\ UNCHANGED <<serviceVars, options, mounted, compressions>>

\* handleOptionChange(option, value): one field of the options state is
\* replaced.  The three controls are rendered when there is a file and no
\* compressed file, and are disabled while isProcessing is true.
handleOptionChange ==
  /\ mounted = "mounted"
  /\ fileState.file # 0
  /\ fileState.compressedFile = 0
  /\ ~fileState.isProcessing
  /\ \/ \E value \in Levels : options' = [options EXCEPT !.compressionLevel = value]
     \/ \E value \in SliderValues : options' = [options EXCEPT !.quality = value]
     \/ \E value \in BOOLEAN : options' = [options EXCEPT !.preserveQuality = value]
  /\ lastEvent' = "handleOptionChange"
  /\ UNCHANGED <<serviceVars, mounted, fileState, effect, compressions, objectURLs>>

\* compressPDF() of the App, up to its first await: the Compress button is
\* shown when there is a file and no compressed file, and enabled when
\* isProcessing is false.  The call keeps the file, the size and the options
\* of the render it was made in; the simulated App starts its progress timer.
compressPDFClick ==
  /\ mounted = "mounted"
  /\ fileState.file # 0
  /\ fileState.compressedFile = 0
  /\ ~fileState.isProcessing
  /\ Len(compressions) < MaxCompressions
  /\ compressions' =
       Append(compressions,
              [file |-> fileState.file, originalSize |-> fileState.originalSize,
               options |-> options, status |-> "pending",
               interval |-> (app = "simulated"), ticks |-> 0, timeout |-> FALSE])
  /\ Commit([fileState EXCEPT !.isProcessing = TRUE, !.progress = 0, !.error = ""],
            objectURLs)
  /\ lastEvent' = "compressPDF"
  /\ UNCHANGED <<serviceVars, options, mounted>>

\* Math.min(prev.progress + 5, 90).
nextProgress(progress) == IF progress + 5 < 90 THEN progress + 5 ELSE 90

\* A tick of the progress timer of simulated compression i (after the
\* unmount React drops its update: nothing happens).
progressTick(i) ==
  /\ mounted = "mounted"
  /\ compressions[i].interval
  /\ compressions[i].ticks < MaxTicks
  /\ compressions' = [compressions EXCEPT ![i].ticks = @ + 1]
  /\ Commit([fileState EXCEPT !.progress = nextProgress(@)], objectURLs)
  /\ lastEvent' = "progressTick"
  /\ UNCHANGED <<serviceVars, options, mounted>>

\* The progress callback the App passes to the service, for call i (after
\* the unmount React drops its update: nothing happens).
onProgress(i) ==
  /\ mounted = "mounted"
  /\ app = "service"
  /\ compressions[i].status = "pending"
  /\ \E progress \in ServiceProgress :
       Commit([fileState EXCEPT !.progress = progress], objectURLs)
  /\ lastEvent' = "onProgress"
  /\ UNCHANGED <<serviceVars, options, mounted, compressions>>

\* compressionFactor of the simulated App, in tenths.
compressionFactor(opts) ==
  CASE opts.compressionLevel = "low" -> 9
    [] opts.compressionLevel = "medium" -> 7
    [] opts.compressionLevel = "high" -> IF opts.preserveQuality THEN 5 ELSE 3
    [] OTHER -> 7

\* Math.floor(n * c) in IEEE doubles, c being the double nearest to
\* tenths / 10.  0.5 is exact; the doubles 0.9 and 0.3 are near enough to
\* 9/10 and 3/10 for the product to round to the exact quotient and for
\* the floor to be that of the exact product.  The double 0.7 is
\* 7/10 - 0.4 * 2^-53: when 7n/10 is an integer k, of the binade
\* 2^e < k < 2^(e+1), the product rounds to k only in the lower part of
\* the binade, 4k <= 7 * 2^e, and to the double below k otherwise, whose
\* floor is k - 1 (90 * 0.7 is 62.99999999999999).
floorTimes(n, tenths) ==
  IF tenths = 7 /\ n > 0 /\ (7 * n) % 10 = 0
    THEN LET k == (7 * n) \div 10
             p == CHOOSE p \in {2 ^ e : e \in 0..24} : p < k /\ k < 2 * p
         IN  IF 4 * k <= 7 * p THEN k ELSE k - 1
    ELSE (n * tenths) \div 10

\* The compressed sizes call c can end with: what the service reports, or
\* Math.floor(fileState.originalSize * compressionFactor) of the simulation.
compressedSizes(c) ==
  IF app = "service" THEN ServiceSizes
  ELSE {floorTimes(c.originalSize, compressionFactor(c.options))}

\* Call c of compressPDF() has returned with the status given: the file,
\* the size and the options it held are out of scope, its timers remain.
returned(c, status) ==
  [c EXCEPT !.status = status, !.file = 0, !.originalSize = 0,
            !.options = InitialOptions]

\* compressPDF() of the App after its awaits, call i having succeeded: the
\* simulated App clears its timer, the URL of the compressed preview is
\* created, the state is set and the reset of the progress is scheduled.
compressPDFResolved(i) ==
  /\ compressions[i].status = "pending"
  /\ objectURLs.created < MaxUrls
  /\ compressions' = [compressions EXCEPT ![i] = [returned(@, "resolved") EXCEPT
                                                   !.interval = FALSE,
                                                   !.timeout = TRUE]]
  /\ \E urls \in {createObjectURL(objectURLs)}, size \in compressedSizes(compressions[i]) :
       CommitIfMounted([fileState EXCEPT !.compressedFile = compressions[i].file,
                                         !.compressedPreview = urls.created,
                                         !.compressedSize = size,
                                         !.isProcessing = FALSE,
                                         !.progress = 100],
                       urls)
  /\ lastEvent' = "compressPDF resolved"
  /\ UNCHANGED <<serviceVars, options, mounted>>

\* The timeout that resets the progress a second after call i succeeded
\* (after the unmount React drops its update: nothing happens).
progressReset(i) ==
  /\ mounted = "mounted"
  /\ compressions[i].timeout
  /\ compressions' = [compressions EXCEPT ![i].timeout = FALSE]
  /\ Commit([fileState EXCEPT !.progress = 0], objectURLs)
  /\ lastEvent' = "progressReset"
  /\ UNCHANGED <<serviceVars, options, mounted>>

\* compressPDF() of the App in its catch block, call i having failed: the
\* timer of the simulated App is declared inside the try block and is not
\* cleared here.
compressPDFRejected(i) ==
  /\ compressions[i].status = "pending"
  /\ compressions' = [compressions EXCEPT ![i] = returned(@, "rejected")]
  /\ CommitIfMounted([fileState EXCEPT !.isProcessing = FALSE,
                                       !.progress = 0,
                                       !.error = "Failed to compress PDF."],
                     objectURLs)
  /\ lastEvent' = "compressPDF rejected"
  /\ UNCHANGED <<serviceVars, options, mounted>>

\* resetState(): the button is shown with the results.
resetState ==
  /\ mounted = "mounted"
  /\ fileState.compressedFile # 0
  /\ Commit(InitialFileState,
            revoke(revoke(objectURLs, fileState.preview), fileState.compressedPreview))
  /\ lastEvent' = "resetState"
  /\ UNCHANGED <<serviceVars, options, mounted, compressions>>

\* The component is unmounted: the cleanup of its last effect runs.
Unmount ==
  /\ mounted = "mounted"
  /\ mounted' = "unmounted"
  /\ objectURLs' = cleanup(objectURLs, effect)
  /\ lastEvent' = "unmount"
  /\ UNCHANGED <<serviceVars, options, fileState, effect, compressions>>

\* One of the Apps has been rendered for the first time.
AppInit ==
  /\ variant = "module"
  /\ file = SavedFile
  /\ options = InitialOptions
  /\ wpc = "init"
  /\ ctx = EmptyContext
  /\ trailerInfo = EmptyTrailer
  /\ pages = <<>>
  /\ stages = <<>>
  /\ sent = <<>>
  /\ delivered = 0
  /\ errorEvent = "none"
  /\ workerState = "none"
  /\ promise = "none"
  /\ progressCalls = <<>>
  /\ NoCall
  /\ NoResult
  /\ workers = <<>>
  /\ requests = <<>>
  /\ cancels = 0
  /\ app \in AppVariants
  /\ lastEvent = ""
  /\ mounted = "mounted"
  /\ fileState = InitialFileState
  /\ effect = deps(InitialFileState)
  /\ compressions = <<>>
  /\ objectURLs = [created |-> 0, live |-> {}]

AppNext ==
  \/ onDrop
  \/ handleOptionChange
  \/ compressPDFClick
  \/ \E i \in 1..Len(compressions) : progressTick(i)
  \/ \E i \in 1..Len(compressions) : onProgress(i)
  \/ \E i \in 1..Len(compressions) : compressPDFResolved(i)
  \/ \E i \in 1..Len(compressions) : progressReset(i)
  \/ \E i \in 1..Len(compressions) : compressPDFRejected(i)
  \/ resetState
  \/ Unmount

AppSpec == AppInit /\ [][AppNext]_vars

(* ---------------------------------------------------------------------- *)
(* Properties                                                               *)
(* ---------------------------------------------------------------------- *)

\* The names of the stages run so far.
StageNames == {stages[i].name : i \in 1..Len(stages)}

\* The position of a stage in the order of the design.
StageIndex(name) == CHOOSE i \in 1..Len(StageOrder) : StageOrder[i] = name

\* The stage named has run and failed.
StageFailed(name) == \E i \in 1..Len(stages) : stages[i] = Ran(name, TRUE)

\* The stage named has run and succeeded.
StageSucceeded(name) == \E i \in 1..Len(stages) : stages[i] = Ran(name, FALSE)

\* Some interior stage has failed.
InteriorFailed == \E name \in InteriorStages : StageFailed(name)

\* The positions of the terminal messages among the messages posted.
Terminals == {i \in 1..Len(sent) : sent[i].type \in {"complete", "error"}}

\* The positions of the progress messages among the messages posted.
Progresses == {i \in 1..Len(sent) : sent[i].type = "progress"}

\* The last message posted is m.
LastSent(m) == sent # <<>> /\ sent[Len(sent)] = m

\* The message m has been posted.
WasSent(m) == \E i \in 1..Len(sent) : sent[i] = m

\* Where self.onmessage is right after the interior stage named.
PcAfter(name) ==
  CASE name = "StripMetadata" -> "content"
    [] name = "OptimizeContentStreams" -> "images"
    [] name = "ProcessImages" -> "structure"
    [] OTHER -> "save"

\* The loaded document has a page whose Resources reference resolves to
\* nothing or to something that is not a dictionary.
HasBrokenResources ==
  \E i \in 1..Len(pages) :
    LET page == lookup(file.doc.ctx, pages[i])
    IN  /\ has(page, "Resources")
        /\ IsRef(get(page, "Resources"))
        /\ ~IsDict(lookup(file.doc.ctx, get(page, "Resources")))

\* C1: the stages run in the order Load, StripMetadata, OptimizeContentStreams,
\* ProcessImages, OptimizeStructure, Save, Done, each at most once, and Save
\* does not start before all four interior stages have been attempted.
C1_StagesInFixedOrder ==
  /\ \A i, j \in 1..Len(stages) :
       i < j => StageIndex(stages[i].name) < StageIndex(stages[j].name)
  /\ "Save" \in StageNames => InteriorStages \subseteq StageNames

\* C2: a failure inside an interior stage never becomes the terminal error:
\* the next stage is the next thing to run, the request does not end before
\* Save has been attempted, and it ends with the success message unless Save
\* or the posting of the result failed.
C2_InteriorFailureIsolated ==
  \A i \in 1..Len(stages) :
    (stages[i].name \in InteriorStages /\ stages[i].outcome = "failed") =>
      /\ IF i < Len(stages)
           THEN StageIndex(stages[i + 1].name) = StageIndex(stages[i].name) + 1
           ELSE wpc = PcAfter(stages[i].name)
      /\ wpc = "done" => \E j \in (i + 1)..Len(stages) : stages[j].name = "Save"
      /\ (wpc = "done" /\ ~StageFailed("Save") /\ ~StageFailed("Done"))
           => LastSent(Complete)

\* C2 witness: OptimizeContentStreams failed on a page whose Resources
\* reference does not resolve to a dictionary, and the request ended with
\* the success message.
C2_Witness ==
  /\ StageFailed("OptimizeContentStreams")
  /\ HasBrokenResources
  /\ StageSucceeded("Save")
  /\ LastSent(Complete)

\* C3: the worker posts exactly one terminal message per request, complete
\* or error, and nothing after it.
C3_OneTerminalMessage ==
  /\ Cardinality(Terminals) <= 1
  /\ \A i \in Terminals : i = Len(sent)
  /\ wpc = "done" => Cardinality(Terminals) = 1

\* C3 witness: Save failed after the interior stages ran, the error message
\* is the last message and the service has handled it.
C3_Witness ==
  /\ wpc = "done"
  /\ StageFailed("Save")
  /\ LastSent(Error)
  /\ delivered = Len(sent)

\* C4: every submitted request eventually has its promise resolved or
\* rejected.
C4_NoSilentHang == (promise = "pending") ~> (promise \in {"resolved", "rejected"})

\* C4 witness: the promise of a request whose worker raised an error event
\* has been rejected.
C4_Witness == promise = "rejected" /\ errorEvent = "handled"

\* C5: the progress values posted are non-decreasing and within 0..100, and
\* the message right before the success message is progress 100.
C5_ProgressMonotonic ==
  /\ \A i, j \in Progresses : i < j => sent[i].progress <= sent[j].progress
  /\ \A i \in Progresses : sent[i].progress \in 0..100
  /\ \A i \in 1..Len(sent) :
       sent[i] = Complete => (i > 1 /\ sent[i - 1] = Progress(100))

\* C5 witness: a request of the module worker at level low ended with the
\* success message.
C5_Witness ==
  /\ variant = "module"
  /\ options.compressionLevel = "low"
  /\ LastSent(Complete)

\* C6: no request whose terminal message is the error has reported
\* progress 100.
C6_HundredOnlyOnSuccess == WasSent(Error) => ~WasSent(Progress(100))

\* C7: when Load fails the request ends with the error message and nothing
\* else happens: no interior stage, no Save, no success message.
C7_LoadFailureIsFatal ==
  StageFailed("Load") =>
    /\ stages = <<Ran("Load", TRUE)>>
    /\ wpc = "done"
    /\ LastSent(Error)
    /\ ~WasSent(Complete)

\* C7 witness: the load of a document whose root object is missing failed
\* and the service rejected the promise.
C7_Witness ==
  /\ StageFailed("Load")
  /\ file.doc = RootlessDocument
  /\ promise = "rejected"

\* C8: when Save fails the request ends with the error message, no success
\* message is posted and Save is not run again.
C8_SaveFailureIsFatal ==
  StageFailed("Save") =>
    /\ wpc = "done"
    /\ LastSent(Error)
    /\ ~WasSent(Complete)
    /\ Cardinality({i \in 1..Len(stages) : stages[i].name = "Save"}) = 1
    /\ "Done" \notin StageNames

\* C8 witness: Save failed and the service rejected the promise and
\* terminated the worker.
C8_Witness ==
  /\ StageFailed("Save")
  /\ promise = "rejected"
  /\ workerState = "terminated"

\* C9: once a document is loaded, the trailer's root reference is the one
\* that was loaded and resolves to the catalog, after every stage.
C9_RootStaysResolvable ==
  StageSucceeded("Load") =>
    /\ trailerInfo.Root = file.doc.trailer.Root
    /\ IsDict(lookup(ctx, trailerInfo.Root))
    /\ lookup(ctx, trailerInfo.Root).cls = "PDFCatalog"
    /\ has(lookup(ctx, trailerInfo.Root), "Pages")

\* C9 witness: every interior stage has run on a document with metadata, one
\* of them failed part-way, and the root still resolves.
C9_Witness ==
  /\ wpc = "save"
  /\ InteriorFailed
  /\ file.doc.trailer.Info # Undefined
  /\ IsDict(lookup(ctx, trailerInfo.Root))

\* C10: a page whose Resources reference is unresolved or not a dictionary
\* is nothing to prune: OptimizeContentStreams does not fail on it and the
\* other pages are pruned.
C10_BrokenResourcesIsNoError ==
  (HasBrokenResources /\ "OptimizeContentStreams" \in StageNames) =>
    /\ StageSucceeded("OptimizeContentStreams")
    /\ (variant = "enhanced" /\ options.compressionLevel = "high") =>
         \A i \in 1..Len(pages) :
           DOMAIN lookup(ctx, pages[i]).d \cap pageEntriesToRemove = {}

(* ---------------------------------------------------------------------- *)
(* Properties of the pruning policy                                         *)
(* ---------------------------------------------------------------------- *)

\* The catalog keys the policy removes at every level.
AlwaysCatalogKeys ==
  {"Metadata", "MarkInfo", "Outlines", "PageLabels", "ViewerPreferences",
   "PageLayout", "PageMode", "Threads", "OpenAction"}

\* The catalog keys the policy removes at level high.
HighCatalogKeys == {"StructTreeRoot", "OCProperties"}

\* The page keys the policy names.
PolicyPageKeys == {"Thumb", "Annots"} \cup pageEntriesToRemove

\* The catalog as it was loaded and as it is now.
Catalog0 == lookup(file.doc.ctx, file.doc.trailer.Root)
CatalogNow == lookup(ctx, trailerInfo.Root)

\* Page i as it was loaded and as it is now.
Page0(i) == lookup(file.doc.ctx, pages[i])
PageNow(i) == lookup(ctx, pages[i])

\* Every key of dictionary d0 outside the set given is in d with its value.
KeepsOutside(d0, d, keys) ==
  \A k \in DOMAIN d0.d \ keys : k \in DOMAIN d.d /\ d.d[k] = d0.d[k]

\* Page i has a Resources reference that resolved to a dictionary at load.
HasResourceDict(i) ==
  /\ has(Page0(i), "Resources")
  /\ IsRef(get(Page0(i), "Resources"))
  /\ IsDict(lookup(file.doc.ctx, get(Page0(i), "Resources")))

\* The four interior stages are over.
AllStagesRan == "OptimizeStructure" \in StageNames

\* The request asks for level high without preserveQuality.
HighLossy == options.compressionLevel = "high" /\ ~options.preserveQuality

\* C11: the stages remove only the entries of the policy table: every other
\* key of the catalog, of a page and of a resource dictionary keeps its value
\* throughout, and the catalog's Names entry stays, losing at most its
\* EmbeddedFiles entry.
C11_OnlyListedEntriesRemoved ==
  StageSucceeded("Load") =>
    /\ KeepsOutside(Catalog0, CatalogNow,
                    AlwaysCatalogKeys \cup HighCatalogKeys \cup {"Names"})
    /\ has(Catalog0, "Names") =>
         /\ has(CatalogNow, "Names")
         /\ IsDict(get(CatalogNow, "Names"))
         /\ KeepsOutside(get(Catalog0, "Names"), get(CatalogNow, "Names"),
                         {"EmbeddedFiles"})
    /\ \A i \in 1..Len(pages) :
         /\ KeepsOutside(Page0(i), PageNow(i), PolicyPageKeys)
         /\ HasResourceDict(i) =>
              /\ IsDict(lookup(ctx, get(Page0(i), "Resources")))
              /\ KeepsOutside(lookup(file.doc.ctx, get(Page0(i), "Resources")),
                              lookup(ctx, get(Page0(i), "Resources")), {"ProcSet"})

\* C12: at every level and preserveQuality value, once the stages have run
\* with no stage failure the catalog holds none of Metadata, MarkInfo,
\* Outlines, PageLabels, ViewerPreferences, PageLayout, PageMode, Threads,
\* OpenAction.
C12_CatalogMetadataStripped ==
  (AllStagesRan /\ ~InteriorFailed) =>
    DOMAIN CatalogNow.d \cap AlwaysCatalogKeys = {}

\* C13: every request that ends with the success message has had the
\* trailer's Info reference removed, at every level.
C13_InfoReferenceRemoved ==
  WasSent(Complete) => trailerInfo.Info = Undefined

\* C14: at every level, low included, once the stages have run with no stage
\* failure no page holds a Thumb entry.
C14_ThumbRemovedEverywhere ==
  (AllStagesRan /\ ~InteriorFailed) =>
    \A i \in 1..Len(pages) : ~has(PageNow(i), "Thumb")

\* C15: once the stages have run, a page that had Annots has lost it exactly
\* when the level is high and preserveQuality is false; otherwise it still
\* holds the same Annots value.
C15_AnnotsRemovedIffHighLossy ==
  AllStagesRan =>
    \A i \in 1..Len(pages) :
      has(Page0(i), "Annots") =>
        IF HighLossy THEN ~has(PageNow(i), "Annots")
        ELSE has(PageNow(i), "Annots")
               /\ get(PageNow(i), "Annots") = get(Page0(i), "Annots")

\* C16: the catalog's StructTreeRoot and OCProperties entries are removed
\* exactly at level high: at low and medium they are there with their
\* values throughout, and at high they are gone from the document that is
\* saved.
C16_StructureEntriesIffHigh ==
  StageSucceeded("Load") =>
    \A k \in HighCatalogKeys \cap DOMAIN Catalog0.d :
      IF options.compressionLevel = "high"
        THEN StageSucceeded("Save") => ~has(CatalogNow, k)
        ELSE has(CatalogNow, k) /\ get(CatalogNow, k) = get(Catalog0, k)

\* C17: in the enhanced worker, once the stages have run, each of Dur, Trans,
\* AA, StructParents, PZ, SeparationInfo, Group, Tabs, TemplateInstantiated,
\* PresSteps, UserUnit that a page had is gone exactly when the level is
\* high, whatever preserveQuality is, and is otherwise unchanged.
C17_PageEntriesIffHigh ==
  (variant = "enhanced" /\ AllStagesRan) =>
    \A i \in 1..Len(pages) :
      \A k \in pageEntriesToRemove \cap DOMAIN Page0(i).d :
        IF options.compressionLevel = "high"
          THEN ~has(PageNow(i), k)
          ELSE has(PageNow(i), k) /\ get(PageNow(i), k) = get(Page0(i), k)

\* The resource dictionary of page i, referenced or inline, as it was loaded
\* and as it is now.
Resources0(i) == lookup(file.doc.ctx, get(Page0(i), "Resources"))
ResourcesNow(i) == lookup(ctx, get(Page0(i), "Resources"))

\* C18: in the enhanced worker, once the stages have run, every page that
\* has a resource dictionary with ProcSet has lost ProcSet exactly when the
\* level is high and preserveQuality is false.
C18_ProcSetIffHighLossy ==
  (variant = "enhanced" /\ AllStagesRan) =>
    \A i \in 1..Len(pages) :
      (/\ has(Page0(i), "Resources")
       /\ IsDict(Resources0(i))
       /\ has(Resources0(i), "ProcSet")) =>
        /\ has(PageNow(i), "Resources")
        /\ IsDict(ResourcesNow(i))
        /\ has(ResourcesNow(i), "ProcSet") <=> ~HighLossy

\* The stage calls of the second pass, as logged.
SecondPass == {i \in 1..Len(stages) : i > 3}

\* C19: pruning is idempotent: every stage of a second pass of StripMetadata,
\* OptimizeContentStreams and OptimizeStructure with the same options leaves
\* the graph as the first pass left it, and raises no error.
C19_PruningIdempotent ==
  firstPass # <<>> =>
    /\ graph = firstPass[1]
    /\ \A i \in SecondPass : stages[i].outcome = "ok"

\* The image handed to processImageXObject is eligible: it declares a Width
\* and a Height of at least 100.
Eligible ==
  /\ has(imageObj, "Width") /\ has(imageObj, "Height")
  /\ get(imageObj, "Width").v >= 100 /\ get(imageObj, "Height").v >= 100

\* The base factor of the policy, in tenths.
BaseTenths ==
  LET q == options.quality
  IN  CASE options.compressionLevel = "low" -> IF q > 80 THEN 10 ELSE 9
        [] options.compressionLevel = "medium" -> IF q > 60 THEN 8 ELSE 7
        [] OTHER -> IF q > 40 THEN 6 ELSE 5

\* The scale factor of the policy for the image and options at hand, in
\* thousandths: base x 0.8 for a dimension above 1000 x 0.7 at high below
\* quality 30.
PolicyFactor ==
  LET large == IF get(imageObj, "Width").v > 1000 \/ get(imageObj, "Height").v > 1000
                 THEN 8 ELSE 10
      low == IF options.compressionLevel = "high" /\ options.quality < 30
               THEN 7 ELSE 10
  IN  BaseTenths * large * low

\* C20: for every eligible image processImageXObject ends with the factor
\* base(level, quality) x (0.8 if width > 1000 or height > 1000) x (0.7 if
\* level = high and quality < 30); width 2000, height 1500, high, quality 25
\* gives 0.28.  The factor is a function of these inputs alone.
C20_ScaleFactorFormula ==
  (wpc = "returned" /\ Eligible) =>
    /\ downsampleFactor = <<PolicyFactor>>
    /\ (/\ get(imageObj, "Width").v = 2000 /\ get(imageObj, "Height").v = 1500
        /\ options.compressionLevel = "high" /\ options.quality = 25)
         => downsampleFactor = <<280>>

\* C20 witness: processImageXObject has returned for a 1000 x 2000 image at
\* level high, quality 25: one dimension above 1000, factor 0.28.
C20_Witness ==
  /\ wpc = "returned"
  /\ Eligible
  /\ get(imageObj, "Width").v = 1000 /\ get(imageObj, "Height").v = 2000
  /\ options.compressionLevel = "high" /\ options.quality = 25
  /\ downsampleFactor = <<280>>

\* The image handed to processImageXObject has a dimension above 1000.
Large ==
  get(imageObj, "Width").v > 1000 \/ get(imageObj, "Height").v > 1000

\* The request asks for level low at a quality above 80.
LowAtTopQuality == options.compressionLevel = "low" /\ options.quality > 80

\* C21 as stated: at level low with a quality above 80 the factor of every
\* eligible image is 1, and nothing is written.
C21_NoOpAtMaximumQuality ==
  (wpc = "returned" /\ Eligible /\ LowAtTopQuality) =>
    /\ downsampleFactor = <<1000>>
    /\ graph = file.doc

\* C21 amended: at level low with a quality above 80 the factor of an
\* eligible image is 1 when neither dimension is above 1000 and 0.8 when one
\* is; nothing is written either way.
C21_NoOpAtMaximumQuality_Amended ==
  (wpc = "returned" /\ Eligible /\ LowAtTopQuality) =>
    /\ downsampleFactor = IF Large THEN <<800>> ELSE <<1000>>
    /\ graph = file.doc

\* C21 witness: processImageXObject has returned for a 1000 x 1000 image at
\* level low, quality 95, with the factor 1.
C21_Witness ==
  /\ wpc = "returned"
  /\ Eligible
  /\ get(imageObj, "Width").v = 1000 /\ get(imageObj, "Height").v = 1000
  /\ options.compressionLevel = "low" /\ options.quality = 95
  /\ downsampleFactor = <<1000>>

\* C22: an image with a Width or a Height below 100, or one that lacks
\* either entry, gets no factor and nothing is written, whatever the level,
\* the quality and preserveQuality.
C22_SmallImagesUntouched ==
  (wpc = "returned" /\ ~Eligible) =>
    /\ downsampleFactor = <<>>
    /\ graph = file.doc

\* C22 witness: processImageXObject has returned for a 50 x 2000 image at
\* level high without a factor.
C22_Witness ==
  /\ wpc = "returned"
  /\ has(imageObj, "Width") /\ has(imageObj, "Height")
  /\ get(imageObj, "Width").v = 50 /\ get(imageObj, "Height").v = 2000
  /\ options.compressionLevel = "high"
  /\ downsampleFactor = <<>>

\* C23: the factor of every eligible image, at every level and quality, is
\* above 0 and at most 1.
C23_FactorInUnitInterval ==
  (wpc = "returned" /\ Eligible) =>
    /\ Len(downsampleFactor) = 1
    /\ 0 < downsampleFactor[1] /\ downsampleFactor[1] <= 1000

\* C23 witness: the two ends of the range have been computed: 0.28 for a
\* large image at high, quality 0, or 1 for a small one at low, quality 100.
C23_Witness ==
  /\ wpc = "returned"
  /\ Eligible
  /\ \/ downsampleFactor = <<280>> /\ options.quality = 0
     \/ downsampleFactor = <<1000>> /\ options.quality = 100

RECURSIVE Gcd(_, _)
\* The greatest common divisor of two naturals.
Gcd(a, b) == IF b = 0 THEN a ELSE Gcd(b, a % b)

\* The absolute value of an integer.
Abs(n) == IF n < 0 THEN -n ELSE n

\* The fraction n / d, d above 0, in lowest terms.
Lowest(n, d) ==
  LET g == Gcd(Abs(n), d)
  IN  [num |-> n \div g, den |-> d \div g]

\* The fraction r equals n / d.
RatioIs(r, n, d) == r.den > 0 /\ Lowest(r.num, r.den) = Lowest(n, d)

\* The complete messages posted.
Completes == {i \in 1..Len(sent) : sent[i].type = "complete"}

\* C24: the ratio of every success message, and of the result resolved from
\* it, is (originalSize - outputSize) / originalSize for the size of the file
\* and the size of the bytes emitted; it is negative when the output is the
\* larger and is not clamped: 1,000,000 -> 400,000 gives 0.6 and
\* 1,000,000 -> 1,050,000 gives -0.05.
C24_RatioExact ==
  /\ \A i \in Completes :
       /\ sent[i].data.originalSize = originalSize
       /\ sent[i].data.compressedSize = compressedSize
       /\ RatioIs(sent[i].data.compressionRatio,
                  originalSize - compressedSize, originalSize)
       /\ compressedSize > originalSize => sent[i].data.compressionRatio.num < 0
       /\ (originalSize = 1000000 /\ compressedSize = 400000)
            => RatioIs(sent[i].data.compressionRatio, 6, 10)
       /\ (originalSize = 1000000 /\ compressedSize = 1050000)
            => RatioIs(sent[i].data.compressionRatio, -5, 100)
  /\ result # <<>> => \E i \in Completes : result[1] = sent[i].data

\* C24 witness: a request whose output is larger than its input has been
\* resolved with the ratio -0.05.
C24_Witness ==
  /\ result # <<>>
  /\ originalSize = 1000000 /\ compressedSize = 1050000
  /\ RatioIs(result[1].compressionRatio, -5, 100)

\* C25 as stated: the compressionRatio of every result delivered to the
\* caller is at least 0 and at most 1.
C25_RatioBetweenZeroAndOne ==
  result # <<>> =>
    /\ result[1].compressionRatio.den > 0
    /\ 0 <= result[1].compressionRatio.num
    /\ result[1].compressionRatio.num <= result[1].compressionRatio.den

\* The messages a call's handler has handled, without their job numbers.
ReceivedMessages(i) ==
  [k \in 1..Len(requests[i].received) |-> requests[i].received[k].msg]

\* Sequence a is a prefix of sequence b.
IsPrefix(a, b) == Len(a) <= Len(b) /\ \A k \in 1..Len(a) : a[k] = b[k]

\* The progress values among the messages of a sequence, in order.
RECURSIVE ProgressValues(_)
ProgressValues(msgs) ==
  IF msgs = <<>> THEN <<>>
  ELSE (IF Head(msgs).type = "progress" THEN <<Head(msgs).progress>> ELSE <<>>)
         \o ProgressValues(Tail(msgs))

\* C26: two calls of compressPDF running side by side each have a worker of
\* their own; a call's handler only ever handles messages of its own job,
\* what it handles is the run of its own file and options, its onProgress
\* gets exactly the progress values of that run, and it gets one outcome at
\* most: its promise is resolved by the complete message of its own run
\* alone and rejected by the error message of its own run or by the error
\* event of its own worker alone.
C26_RequestsIndependent ==
  \A i \in Requests :
    LET r == requests[i]
        terminals == {k \in 1..Len(r.received) :
                        r.received[k].msg.type \in {"complete", "error"}}
        errorEvents == {w \in 1..Len(workers) :
                          workers[w].onerror = i /\ workers[w].errorEvent = "handled"}
    IN  /\ \A j \in Requests \ {i} : r.worker # 0 => requests[j].worker # r.worker
        /\ \A k \in 1..Len(r.received) : r.received[k].job = i
        /\ \E saved, posted \in BOOLEAN, size \in SideCompressedSizes :
             IsPrefix(ReceivedMessages(i),
                      runMessages(variant, r.input.file, r.input.options, saved, posted,
                                  CompleteWith(completeData(r.input.size, size))))
        /\ r.progressCalls = ProgressValues(ReceivedMessages(i))
        /\ Cardinality(terminals) + Cardinality(errorEvents) <= 1
        /\ \A w \in errorEvents : w = r.worker
        /\ r.promise = "resolved" <=>
             \E k \in terminals : r.received[k].msg.type = "complete"
        /\ r.promise = "rejected" <=>
             \/ \E k \in terminals : r.received[k].msg.type = "error"
             \/ errorEvents # {}
        /\ r.result # <<>> =>
             r.promise = "resolved" /\ r.result[1].originalSize = r.input.size

\* C26 witness: two calls with different files and options ran side by
\* side; the first was resolved with the result of its own file and the
\* second rejected, after both had received progress.
C26_Witness ==
  /\ requests[1].input # requests[2].input
  /\ requests[1].promise = "resolved"
  /\ requests[1].result # <<>>
  /\ requests[2].promise = "rejected"
  /\ requests[2].progressCalls # <<>>

\* C27: once cancel() has been called no progress callback is invoked and
\* no success result is delivered, wherever the pipeline is; a cancel() that
\* finds no worker (a second call, or one after the terminal message)
\* changes nothing.
C27_CancelSuppressesMessages ==
  [][/\ cancels > 0 =>
          /\ progressCalls' = progressCalls
          /\ promise' = "resolved" => promise = "resolved"
          /\ delivered' = delivered
     /\ (cancels' > cancels /\ workerState # "running") =>
          UNCHANGED <<workerState, promise, progressCalls, delivered, sent, wpc>>]_vars

\* C27 witness: cancel() was called twice while the worker had posted
\* messages the page had not handled yet; they stay unhandled.
C27_Witness ==
  /\ cancels = 2
  /\ workerState = "terminated"
  /\ progressCalls # <<>>
  /\ delivered < Len(sent)
  /\ promise = "pending"

\* C30: when cancel() is called while the promise is pending, the promise
\* is eventually rejected.
C30_CancelRejectsPromise ==
  (cancels > 0 /\ promise = "pending") ~> (promise = "rejected")

\* C28: every object URL the App has created is revoked once the component
\* is gone: no URL is live after the unmount.
C28_ObjectUrlsRevoked ==
  mounted = "unmounted" => objectURLs.live = {}

\* The promise has been resolved or rejected.
Settled(p) == p \in {"resolved", "rejected"}

\* C33: in compressPDF and createCancelableCompression the promise is
\* settled at most once, and whenever it is settled (by the complete
\* message, the error message or a worker error event) the worker has been
\* terminated.
C33_WorkerTerminatedWhenSettled ==
  [][/\ Settled(promise) => promise' = promise
     /\ Settled(promise') => workerState' = "terminated"]_vars

\* C33 witness: the promise was rejected by an error message and the worker
\* is terminated, with no cancel().
C33_Witness ==
  /\ promise = "rejected"
  /\ errorEvent # "handled"
  /\ cancels = 0
  /\ workerState = "terminated"

\* C34: onProgress has been called exactly once for each progress message
\* the page has handled, in the order the worker posted them, and is not
\* called once the promise is settled.
C34_ProgressCallsInOrder ==
  [][/\ progressCalls' = ProgressValues(SubSeq(sent', 1, delivered'))
     /\ Settled(promise) => progressCalls' = progressCalls]_vars

\* C34 witness: the promise is resolved and onProgress was called for every
\* progress message of the run, 100 last.
C34_Witness ==
  /\ promise = "resolved"
  /\ Len(progressCalls) > 2
  /\ progressCalls[Len(progressCalls)] = 100
  /\ delivered = Len(sent)

\* C37: ProcessImages leaves the document graph as it found it, for every
\* document and every option combination.
C37_ProcessImagesLeavesGraph ==
  [][wpc = "images" => UNCHANGED graphVars]_vars

\* C37 witness: ProcessImages has run at level high in the enhanced worker
\* on a document with a JPXDecode image reached through references.
C37_Witness ==
  /\ variant = "enhanced"
  /\ options.compressionLevel = "high"
  /\ StageSucceeded("ProcessImages")
  /\ \E i \in 1..Len(pages) :
       /\ HasResourceDict(i)
       /\ has(Resources0(i), "XObject")
       /\ ImageId(i) \in DOMAIN ctx
       /\ get(ctx[ImageId(i)], "Filter") = Name("JPXDecode")

\* C38: a Resources dictionary stored inline in its page, with the XObject
\* dictionary inside it, is never modified: the page holds it with the
\* value it was loaded with, ProcSet included, at every level.
C38_InlineResourcesUntouched ==
  StageSucceeded("Load") =>
    \A i \in 1..Len(pages) :
      (has(Page0(i), "Resources") /\ ~IsRef(get(Page0(i), "Resources"))) =>
        /\ has(PageNow(i), "Resources")
        /\ get(PageNow(i), "Resources") = get(Page0(i), "Resources")

\* C38 witness: the stages have run at level high without preserveQuality
\* in the enhanced worker, none failed, and a page still holds its inline
\* Resources with ProcSet.
C38_Witness ==
  /\ variant = "enhanced"
  /\ AllStagesRan
  /\ ~InteriorFailed
  /\ HighLossy
  /\ \E i \in 1..Len(pages) :
       /\ has(PageNow(i), "Resources")
       /\ IsDict(get(PageNow(i), "Resources"))
       /\ has(get(PageNow(i), "Resources"), "ProcSet")

\* The compressions the App has started that have not delivered their
\* outcome.
InFlight == {i \in 1..Len(compressions) : compressions[i].status = "pending"}

\* C31: whenever fileState.compressedFile is non-null it is the output of
\* compressing the file held in fileState.file.
C31_ResultBelongsToFile ==
  (mounted = "mounted" /\ fileState.compressedFile # 0) =>
    fileState.compressedFile = fileState.file

\* C32: at most one compression of the App is in flight, and isProcessing
\* is true for as long as one is.
C32_OneCompressionInFlight ==
  mounted = "mounted" =>
    /\ Cardinality(InFlight) <= 1
    /\ InFlight # {} => fileState.isProcessing

\* C35: in the simulated App, when every run started so far has failed,
\* the progress is 0: it stays 0 after a failure until a run is started.
C35_ProgressZeroAfterFailure ==
  (/\ app = "simulated"
   /\ mounted = "mounted"
   /\ compressions # <<>>
   /\ \A i \in 1..Len(compressions) : compressions[i].status = "rejected") =>
    fileState.progress = 0

\* C36: an object URL that fileState.preview or fileState.compressedPreview
\* holds has not been revoked.
C36_ReferencedUrlsLive ==
  mounted = "mounted" =>
    ({fileState.preview, fileState.compressedPreview} \ {0}) \subseteq objectURLs.live

\* C39: dropping a file that is not a PDF changes the error field of
\* fileState and nothing else; dropping an empty list changes nothing.
C39_RejectedDropOnlySetsError ==
  [][/\ lastEvent' = "onDrop other" =>
          /\ fileState' = [fileState EXCEPT !.error = "Only PDF files are supported."]
          /\ UNCHANGED <<options, mounted, effect, compressions, objectURLs>>
     /\ lastEvent' = "onDrop empty" =>
          UNCHANGED <<options, mounted, fileState, effect, compressions, objectURLs>>]_vars

\* C39 witness: a file that is not a PDF was dropped on an App that shows
\* the result of a compression; the file, the result and both previews are
\* still there.
C39_Witness ==
  /\ lastEvent = "onDrop other"
  /\ fileState.error = "Only PDF files are supported."
  /\ fileState.file # 0
  /\ fileState.compressedFile # 0
  /\ fileState.compressedPreview # 0
  /\ fileState.compressedSize > 0

====
